---- MODULE Spec2Model ----
(***************************************************************************)
(* The usage cache and refresh coordinator of codex-switcher               *)
(* (createUsageManager in usage.ts).                                       *)
(*                                                                         *)
(* One step of the model is one run-to-completion segment of the           *)
(* JavaScript event loop: a public call of the manager, or the             *)
(* continuation of refreshImpl after one of its awaits, or the .finally    *)
(* callback of a batch, or the continuation of a caller awaiting the       *)
(* promise refreshAccounts returned.  Listeners run synchronously inside   *)
(* the step that notifies them; a listener may call refreshAccounts        *)
(* back (re-entrantly) from inside the notification.                        *)
(*                                                                         *)
(* Time is in abstract clock units (Date.now() / one unit); with the TTL   *)
(* of 3 units standing for 15 minutes, one unit is 5 minutes.              *)
(***************************************************************************)
EXTENDS Integers, Sequences, FiniteSets, TLC

\* ---------------------------------------------------------------- bounds
MaxCalls == 3        \* refreshAccounts calls per behaviour (listener calls included)
MaxTicks == 1        \* clock ticks per behaviour
MaxListLen == 2      \* length of the account lists callers pass
MaxText == 165       \* length of the error messages and response bodies received

\* ------------------------------------------------- configuration (options)
CACHE_VERSION == 1   \* the version loadCache and invalidateCache stamp the cache with
cacheTtlMs == 3      \* createUsageManager option cacheTtlMs, in clock units
fetchDelayMs == 1    \* createUsageManager option fetchDelayMs, in clock units
MessageLimit == 160  \* truncate's default limit
BodyLimit == 140     \* the part of a non-2xx response body performUsageRequest keeps

StartTime == cacheTtlMs + 1       \* Date.now() when the manager is created

\* ------------------------------------------------------------- value sets
Names == {"a", "b"}
Blank == ""                       \* an account record without a name
AuthFiles == {1, 2}
Listeners == {1, 2}
TokenStates == {"ok", "missing", "incomplete", "parse_error"}
\* what readAuthTokens may find at authFilePath: an empty path, no file, a
\* file that cannot be read, text that is not JSON, JSON null, an object
\* without tokens, tokens without access_token, tokens without account_id,
\* both tokens
AuthFileStates == {"no_path", "absent", "unreadable", "garbage", "null", "no_tokens",
                   "no_access_token", "no_account_id", "complete"}

\* readAuthTokens: "missing" without a path or a file; whatever throws inside
\* the try (reading, parsing, reading .tokens of null) is "parse_error"; a
\* token missing is "incomplete".
readAuthTokens(authFile) ==
    IF authFile \in {"no_path", "absent"} THEN "missing"
    ELSE IF authFile \in {"unreadable", "garbage", "null"} THEN "parse_error"
    ELSE IF authFile \in {"no_tokens", "no_access_token", "no_account_id"} THEN "incomplete"
    ELSE "ok"
\* what performUsageRequest resolves to: a 2xx response with an object body,
\* a 2xx response whose JSON body is null, or an error (non-2xx, network, timeout)
Responses == {"ok", "ok_null", "error"}

NoEntry == [none |-> TRUE]
NoPending == [none |-> TRUE]
NoCall == [none |-> TRUE]
NoObs == [none |-> TRUE]
Thrown == "thrown"

NoEntries == [n \in Names |-> NoEntry]

\* What createUsageManager may find at the path of the cache file: no file, a
\* file that cannot be read, text that is not JSON, JSON null, a JSON number or
\* string, an object without entries, a cache written by another version, a
\* cache of this version.
FileKinds == {"absent", "unreadable", "garbage", "null", "scalar", "no_entries",
              "other_version", "valid"}

NamesOf(accounts) == {accounts[i].name : i \in DOMAIN accounts}

\* The account lists over the names in ns and the credential paths in fs.
ListsOver(ns, fs, len) ==
    UNION {[1..n -> [name : ns, authFile : fs]] : n \in 0..len}

\* The calls a listener makes back into the manager from a notification.
ReCalls ==
    {[accounts |-> <<[name |-> n, authFile |-> 1]>>, force |-> f] :
        n \in Names, f \in BOOLEAN}

Fresh == [summary : {"ok"}, fetchedAt : {StartTime - 1}]
Old == [summary : {"ok"}, fetchedAt : {0}]

\* Concurrent callers, one listener that may call back, direct cache operations.
ScopeCoord ==
    [calls |-> MaxCalls, time |-> StartTime + MaxTicks, listeners |-> {1},
     toks |-> {"ok"}, resps |-> {"ok"}, writes |-> {TRUE},
     lists |-> ListsOver(Names \cup {Blank}, {1}, MaxListLen), relists |-> ReCalls,
     preloaded |-> {NoEntry} \cup Fresh,
     track |-> FALSE, log |-> FALSE, trace |-> {}, observe |-> FALSE,
     throws |-> {{}}, count |-> FALSE, kinds |-> {"valid"}]

\* Callers merging requests that name one profile each, with either credential
\* path, while a batch is in flight; one listener that may call back.
ScopeMerge ==
    [calls |-> MaxCalls, time |-> StartTime + MaxTicks, listeners |-> {1},
     toks |-> {"ok"}, resps |-> {"ok"}, writes |-> {TRUE},
     lists |-> ListsOver(Names, AuthFiles, MaxListLen - 1), relists |-> ReCalls,
     preloaded |-> {NoEntry} \cup Fresh,
     track |-> FALSE, log |-> FALSE, trace |-> {}, observe |-> FALSE,
     throws |-> {{}}, count |-> FALSE, kinds |-> {"valid"}]

\* Callers awaiting the promise refreshAccounts returned; each call is followed
\* until it has resolved and its profiles were attempted.
ScopeCalls ==
    [calls |-> MaxCalls, time |-> StartTime + MaxTicks, listeners |-> {1},
     toks |-> {"ok"}, resps |-> {"ok"}, writes |-> {TRUE},
     lists |-> ListsOver(Names \cup {Blank}, {1}, MaxListLen), relists |-> ReCalls,
     preloaded |-> {NoEntry} \cup Fresh,
     track |-> TRUE, log |-> TRUE, trace |-> {"resolve"}, observe |-> FALSE,
     throws |-> {{}}, count |-> FALSE, kinds |-> {"valid"}]

\* The clock running across the TTL, every token state and every response,
\* entries preloaded 1 and cacheTtlMs + 1 units before creation.
ScopeTime ==
    [calls |-> MaxCalls - 1, time |-> StartTime + MaxTicks + 2, listeners |-> {},
     toks |-> {readAuthTokens(f) : f \in AuthFileStates}, resps |-> Responses,
     writes |-> {TRUE},
     lists |-> ListsOver(Names, {1}, MaxListLen), relists |-> {},
     preloaded |-> {NoEntry} \cup Fresh \cup Old,
     track |-> FALSE, log |-> TRUE, trace |-> {"fetch"}, observe |-> FALSE,
     throws |-> {{}}, count |-> FALSE, kinds |-> {"valid"}]

\* Prune calls while a batch is fetching, one listener counting what it is
\* told; each operation leaves a record of what it was called with.
ScopePrune ==
    [calls |-> MaxCalls, time |-> StartTime + MaxTicks, listeners |-> {1},
     toks |-> {"ok"}, resps |-> {"ok", "ok_null"}, writes |-> {TRUE},
     lists |-> ListsOver(Names, {1}, MaxListLen - 1), relists |-> ReCalls,
     preloaded |-> {NoEntry} \cup Fresh,
     track |-> FALSE, log |-> FALSE, trace |-> {"refreshAccounts"}, observe |-> TRUE,
     throws |-> {{}}, count |-> FALSE, kinds |-> {"valid"}]

\* The cache files of a scope: those with entries hold any of its preloaded
\* entries.
CacheFiles(sc) ==
    {[kind |-> k,
      version |-> IF k = "valid" THEN CACHE_VERSION ELSE CACHE_VERSION + 1,
      entries |-> e] :
        k \in sc.kinds \cap {"valid", "other_version"}, e \in [Names -> sc.preloaded]}
    \cup {[kind |-> k, version |-> 0, entries |-> NoEntries] :
             k \in sc.kinds \ {"valid", "other_version"}}

\* createUsageManager over every kind of cache file, then a few refreshes.
ScopeLoad ==
    [calls |-> MaxCalls - 1, time |-> StartTime + MaxTicks, listeners |-> {},
     toks |-> {"ok"}, resps |-> {"ok"}, writes |-> {TRUE},
     lists |-> ListsOver(Names, {1}, MaxListLen), relists |-> {},
     preloaded |-> {NoEntry} \cup Fresh,
     track |-> FALSE, log |-> FALSE, trace |-> {"create"}, observe |-> FALSE,
     throws |-> {{}}, count |-> FALSE, kinds |-> FileKinds]

\* The operations a specification may follow step by step.
Ops == {"refreshAccounts", "invalidateCache", "removeAccount", "renameAccount",
        "onUpdate", "unsubscribe", "tick", "delay", "fetch", "finally", "resolve",
        "getSummary", "getAllSummaries"}

\* Direct cache operations while batches of one profile run, with two
\* listeners; every step is recorded with what it did.
ScopeDirect ==
    [calls |-> MaxCalls - 1, time |-> StartTime + MaxTicks, listeners |-> Listeners,
     toks |-> {"ok"}, resps |-> {"ok"}, writes |-> {TRUE},
     lists |-> ListsOver(Names, {1}, MaxListLen - 1), relists |-> {},
     preloaded |-> {NoEntry} \cup Fresh,
     track |-> FALSE, log |-> FALSE, trace |-> Ops, observe |-> FALSE,
     throws |-> {{}}, count |-> TRUE, kinds |-> {"valid"}]

\* One batch and direct cache operations, with cache-file writes that may fail
\* and two listeners of which the first may throw; every step is recorded.
ScopeFaults ==
    [calls |-> MaxCalls - 2, time |-> StartTime + MaxTicks, listeners |-> Listeners,
     toks |-> {"ok"}, resps |-> {"ok"}, writes |-> BOOLEAN,
     lists |-> ListsOver(Names, {1}, MaxListLen), relists |-> {},
     preloaded |-> {NoEntry} \cup Fresh,
     track |-> FALSE, log |-> FALSE, trace |-> Ops, observe |-> FALSE,
     throws |-> {{}, {1}}, count |-> TRUE, kinds |-> {"valid"}]

\* A process that refreshes, exits at any moment and is started again on the
\* cache file it left, while the clock runs across the TTL.
ScopeRestart ==
    [calls |-> MaxCalls - 1, time |-> StartTime + MaxTicks + 2, listeners |-> {},
     toks |-> {"ok"}, resps |-> {"ok", "error"}, writes |-> {TRUE},
     lists |-> ListsOver(Names, {1}, MaxListLen), relists |-> {},
     preloaded |-> {NoEntry} \cup Fresh,
     track |-> FALSE, log |-> FALSE, trace |-> {"restart"}, observe |-> FALSE,
     throws |-> {{}}, count |-> FALSE, kinds |-> {"valid"}]

\* Callers, and one listener that may call back, until they have made their
\* calls; every batch is followed to its end.
ScopeLive ==
    [calls |-> MaxCalls, time |-> StartTime + MaxTicks, listeners |-> {1},
     toks |-> {"ok"}, resps |-> {"ok"}, writes |-> {TRUE},
     lists |-> ListsOver(Names, {1}, MaxListLen), relists |-> ReCalls,
     preloaded |-> {NoEntry} \cup Fresh,
     track |-> FALSE, log |-> FALSE, trace |-> {}, observe |-> FALSE,
     throws |-> {{}}, count |-> FALSE, kinds |-> {"valid"}]

\* Callers and one listener that may call back, naming one profile per call;
\* each call is followed until all its profiles were attempted.
ScopeServe ==
    [calls |-> MaxCalls, time |-> StartTime + MaxTicks, listeners |-> {1},
     toks |-> {"ok"}, resps |-> {"ok"}, writes |-> {TRUE},
     lists |-> ListsOver(Names, {1}, MaxListLen - 1), relists |-> ReCalls,
     preloaded |-> {NoEntry} \cup Fresh,
     track |-> TRUE, log |-> FALSE, trace |-> {}, observe |-> FALSE,
     throws |-> {{}}, count |-> FALSE, kinds |-> {"valid"}]

\* Calls with lists of one record, with or without a name, or with none,
\* while batches run; listeners that do not call back; each call is kept
\* with the promise it was handed and recorded with what it found.
ScopeEmpty ==
    [calls |-> MaxCalls, time |-> StartTime + MaxTicks, listeners |-> {1},
     toks |-> {"ok"}, resps |-> {"ok"}, writes |-> {TRUE},
     lists |-> ListsOver(Names \cup {Blank}, {1}, MaxListLen - 1), relists |-> {},
     preloaded |-> {NoEntry} \cup Fresh,
     track |-> TRUE, log |-> FALSE, trace |-> {"refreshAccounts"}, observe |-> FALSE,
     throws |-> {{}}, count |-> TRUE, kinds |-> {"valid"}]

\* The scope of a behaviour, by name.
Scope(name) ==
    CASE name = "coord" -> ScopeCoord
      [] name = "empty" -> ScopeEmpty
      [] name = "serve" -> ScopeServe
      [] name = "live" -> ScopeLive
      [] name = "restart" -> ScopeRestart
      [] name = "direct" -> ScopeDirect
      [] name = "load" -> ScopeLoad
      [] name = "faults" -> ScopeFaults
      [] name = "prune" -> ScopePrune
      [] name = "time" -> ScopeTime
      [] name = "merge" -> ScopeMerge
      [] name = "calls" -> ScopeCalls

\* ------------------------------------------------------------------ state
VARIABLES
    cache,         \* cache.entries: name -> entry or NoEntry
    disk,          \* entries of the cache file on disk
    inFlight,      \* id of the promise held in inFlight, 0 for null
    pending,       \* the pending batch, or NoPending
    listeners,     \* the registered listeners
    procs,         \* every refreshImpl run started so far, by id
    calls,         \* the refreshAccounts calls not yet resolved or not yet served
    ncalls,        \* number of refreshAccounts calls made
    now,           \* Date.now()
    issuedAt,      \* time the outstanding network request was issued, -1 for none
    lastFetchEnd,  \* time the last network request completed, -1 for none
    want,          \* what the requests merged since the batch in flight started ask for
    obs,           \* notifications seen since an observed prune call
    ev,            \* the last operation and what it did
    scope          \* the name of the scope of this behaviour

vars == <<cache, disk, inFlight, pending, listeners, procs, calls, ncalls, now,
          issuedAt, lastFetchEnd, want, obs, ev, scope>>

\* The state as one record, so that a handler is a function from state to state
\* and nested calls (notify -> listener -> refreshAccounts) compose.
Cur ==
    [cache |-> cache, disk |-> disk, inFlight |-> inFlight, pending |-> pending,
     listeners |-> listeners, procs |-> procs, calls |-> calls, ncalls |-> ncalls,
     now |-> now, issuedAt |-> issuedAt, lastFetchEnd |-> lastFetchEnd,
     want |-> want, obs |-> obs, ev |-> ev, scope |-> scope]

Becomes(s) ==
    /\ cache' = s.cache
    /\ disk' = s.disk
    /\ inFlight' = s.inFlight
    /\ pending' = s.pending
    /\ listeners' = s.listeners
    /\ procs' = s.procs
    /\ calls' = s.calls
    /\ ncalls' = s.ncalls
    /\ now' = s.now
    /\ issuedAt' = s.issuedAt
    /\ lastFetchEnd' = s.lastFetchEnd
    /\ want' = s.want
    /\ obs' = s.obs
    /\ ev' = s.ev
    /\ scope' = s.scope

Quiet == [op |-> "none"]

\* The last operation is recorded in the specifications that read it: those
\* name the operations they follow, and any other step leaves Quiet.
Did(s, e) ==
    IF Scope(s.scope).trace = {} THEN s
    ELSE IF e.op \in Scope(s.scope).trace THEN [s EXCEPT !.ev = e]
    ELSE [s EXCEPT !.ev = Quiet]

\* What a step is recorded with where its effects are counted: the state it
\* started from, counters of the cache-file writes and listener calls it
\* makes, and the cache as each write and each round of listeners found it.
Step(e, env) ==
    IF Scope(scope).count
    THEN e @@ [before |-> cache, file |-> disk, subs |-> listeners,
               flight |-> inFlight, pend |-> pending, threw |-> env.throws,
               invoked |-> [l \in Listeners |-> 0], saves |-> 0, failed |-> FALSE,
               seen |-> <<>>]
    ELSE e

\* listener() was called for every l of ls.
Invoked(s, ls) ==
    IF "invoked" \in DOMAIN s.ev
    THEN [s EXCEPT !.ev.invoked = [l \in Listeners |-> IF l \in ls THEN @[l] + 1 ELSE @[l]],
                   !.ev.seen = IF ls = {} THEN @
                               ELSE Append(@, [by |-> "listeners", cache |-> s.cache])]
    ELSE s

\* fs.writeFileSync was called, and succeeded or threw.
Saved(s, ok) ==
    IF "saves" \in DOMAIN s.ev
    THEN [s EXCEPT !.ev.saves = @ + 1, !.ev.failed = @ \/ ~ok,
                   !.ev.seen = IF ok THEN Append(@, [by |-> "file", cache |-> s.disk])
                               ELSE @]
    ELSE s

\* ------------------------------------------------------------ pure helpers
\* Map.set(name, account): a new key is appended, an existing key keeps its
\* place and takes the new value.
MapSet(m, account) ==
    IF \E i \in DOMAIN m : m[i].name = account.name
    THEN [i \in DOMAIN m |-> IF m[i].name = account.name THEN account ELSE m[i]]
    ELSE Append(m, account)

RECURSIVE MapSetAll(_, _)
MapSetAll(m, accounts) ==
    IF accounts = <<>> THEN m
    ELSE MapSetAll(IF Head(accounts).name = Blank THEN m
                   ELSE MapSet(m, Head(accounts)),
                   Tail(accounts))

normalizeKeepsDuplicates(accounts) ==
    SelectSeq(accounts, LAMBDA account : account.name # Blank)

normalizeAccountsList(accounts) == MapSetAll(<<>>, accounts)

mergeDropsPending(old, new) == MapSetAll(<<>>, new)

mergeKeepsOld(old, new) == MapSetAll(MapSetAll(<<>>, new), old)

\* The merge of enqueueRefresh: pending.accounts first, then the new ones.
mergeAccounts(old, new) == MapSetAll(MapSetAll(<<>>, old), new)

summarizeFailuresAlike(snapshot) ==
    CASE snapshot = "ok" -> "ok"
      [] snapshot = "ok_null" -> Thrown
      [] OTHER -> "error"

summarizeUsageSnapshot(snapshot) ==
    CASE snapshot = "ok" -> "ok"
      [] snapshot = "ok_null" -> Thrown      \* snapshot.data is null: reading data.rate_limit throws
      [] snapshot = "missing" -> "warning"
      [] snapshot = "incomplete" -> "warning"
      [] snapshot = "parse_error" -> "error"
      [] snapshot = "error" -> "error"

\* ------------------------------------------------------------------ texts
\* A text is the sequence of its characters.
\* "auth.json not found for this profile."
MissingText ==
    <<"a", "u", "t", "h", ".", "j", "s", "o", "n", " ", "n", "o", "t", " ", "f", "o", "u",
    "n", "d", " ", "f", "o", "r", " ", "t", "h", "i", "s", " ", "p", "r", "o", "f", "i",
    "l", "e", ".">>

\* "auth.json is missing access_token or account_id."
IncompleteText ==
    <<"a", "u", "t", "h", ".", "j", "s", "o", "n", " ", "i", "s", " ", "m", "i", "s", "s",
    "i", "n", "g", " ", "a", "c", "c", "e", "s", "s", "_", "t", "o", "k", "e", "n", " ",
    "o", "r", " ", "a", "c", "c", "o", "u", "n", "t", "_", "i", "d", ".">>

\* "Failed to parse auth.json."
ParseFallback ==
    <<"F", "a", "i", "l", "e", "d", " ", "t", "o", " ", "p", "a", "r", "s", "e", " ", "a",
    "u", "t", "h", ".", "j", "s", "o", "n", ".">>

\* "Invalid auth.json: "
InvalidPrefix ==
    <<"I", "n", "v", "a", "l", "i", "d", " ", "a", "u", "t", "h", ".", "j", "s", "o", "n",
    ":", " ">>

\* "Usage request failed (HTTP "
RequestFailed ==
    <<"U", "s", "a", "g", "e", " ", "r", "e", "q", "u", "e", "s", "t", " ", "f", "a", "i",
    "l", "e", "d", " ", "(", "H", "T", "T", "P", " ">>

\* "Usage request timed out."
TimedOut ==
    <<"U", "s", "a", "g", "e", " ", "r", "e", "q", "u", "e", "s", "t", " ", "t", "i", "m",
    "e", "d", " ", "o", "u", "t", ".">>

\* "Usage request failed."
FailedFallback ==
    <<"U", "s", "a", "g", "e", " ", "r", "e", "q", "u", "e", "s", "t", " ", "f", "a", "i",
    "l", "e", "d", ".">>

Dots == <<".", ".", ".">>          \* the "..." truncate ends a cut message with
Ellipsis == <<"ellipsis">>         \* the ellipsis character a cut body ends with
Colon == <<":", " ">>
Paren == <<")">>

\* The texts received from outside (error messages, response bodies): every
\* length up to MaxText, the character at each place telling the place.
Letters == <<"a", "b", "c", "d", "e", "f", "g">>

Filler(n) == [i \in 1..n |-> Letters[(i % Len(Letters)) + 1]]

Texts == {Filler(n) : n \in 0..MaxText}

StatusCodes == {<<"4", "0", "4">>, <<"5", "0", "0">>}

\* message.slice(0, n)
slice(message, n) == SubSeq(message, 1, IF n < Len(message) THEN n ELSE Len(message))

\* truncate(message, limit)
truncate(message, limit) ==
    IF Len(message) > limit THEN slice(message, limit - 3) \o Dots ELSE message

\* What readAuthTokens returns for the file state authFile, thrown being the
\* message of the error reading or parsing it threw.
tokenState(authFile, thrown) ==
    [state |-> readAuthTokens(authFile),
     data |-> "none",
     message |->
        CASE readAuthTokens(authFile) = "missing" -> MissingText
          [] readAuthTokens(authFile) = "incomplete" -> IncompleteText
          [] readAuthTokens(authFile) = "parse_error" ->
                IF thrown = <<>> THEN ParseFallback ELSE thrown
          [] OTHER -> <<>>]

\* What the endpoint does with a request: a 2xx response whose body is a JSON
\* object ("json"), JSON null ("json_null") or not JSON ("not_json": json()
\* rejects with message), a non-2xx response ("http") with a status and a body
\* that can be read or not, a rejected fetch ("rejected", with message), no
\* response within REQUEST_TIMEOUT_MS ("aborted").
Replies ==
    [kind : {"json", "json_null", "aborted"}, status : {<<>>}, body : {<<>>},
     readable : {TRUE}, message : {<<>>}]
    \cup [kind : {"not_json", "rejected"}, status : {<<>>}, body : {<<>>},
          readable : {TRUE}, message : Texts]
    \cup [kind : {"http"}, status : StatusCodes, body : Texts,
          readable : BOOLEAN, message : {<<>>}]

performUsageRequestKeepsAll(reply) ==
    CASE reply.kind = "aborted" -> [state |-> "error", data |-> "none", message |-> TimedOut]
      [] reply.kind \in {"rejected", "not_json"} ->
            [state |-> "error", data |-> "none",
             message |-> IF reply.message = <<>> THEN FailedFallback ELSE reply.message]
      [] reply.kind = "http" ->
            [state |-> "error", data |-> "none",
             message |-> RequestFailed \o reply.status \o Paren
                            \o (IF reply.readable /\ reply.body # <<>>
                                THEN Colon \o reply.body ELSE <<>>)]
      [] reply.kind = "json" -> [state |-> "ok", data |-> "object", message |-> <<>>]
      [] reply.kind = "json_null" -> [state |-> "ok", data |-> "null", message |-> <<>>]

\* performUsageRequest: the outcome of the request.
performUsageRequest(reply) ==
    CASE reply.kind = "aborted" -> [state |-> "error", data |-> "none", message |-> TimedOut]
      [] reply.kind \in {"rejected", "not_json"} ->
            [state |-> "error", data |-> "none",
             message |-> IF reply.message = <<>> THEN FailedFallback ELSE reply.message]
      [] reply.kind = "http" ->
            LET trimmed == IF Len(reply.body) > BodyLimit
                           THEN slice(reply.body, BodyLimit) \o Ellipsis
                           ELSE reply.body
                detail == IF reply.readable /\ reply.body # <<>>
                          THEN Colon \o trimmed ELSE <<>>
            IN [state |-> "error", data |-> "none",
                message |-> RequestFailed \o reply.status \o Paren \o detail]
      [] reply.kind = "json" -> [state |-> "ok", data |-> "object", message |-> <<>>]
      [] reply.kind = "json_null" -> [state |-> "ok", data |-> "null", message |-> <<>>]

NoReply == [kind |-> "none", status |-> <<>>, body |-> <<>>, readable |-> TRUE,
            message |-> <<>>]

\* fetchUsageSnapshot: the token state unless it is ok, else the request's outcome.
fetchUsageSnapshot(authFile, thrown, reply) ==
    IF tokenState(authFile, thrown).state # "ok"
    THEN tokenState(authFile, thrown)
    ELSE performUsageRequest(reply)

\* The response a snapshot stands for in the coordinator's steps.
Response(snapshot) ==
    IF snapshot.state = "ok"
    THEN (IF snapshot.data = "null" THEN "ok_null" ELSE "ok")
    ELSE snapshot.state

\* The message summarizeUsageSnapshot gives a warning or error summary.
summaryMessage(snapshot) ==
    CASE snapshot.state = "missing" -> snapshot.message
      [] snapshot.state = "incomplete" -> truncate(snapshot.message, MessageLimit)
      [] snapshot.state = "parse_error" ->
            InvalidPrefix \o truncate(snapshot.message, MessageLimit)
      [] snapshot.state = "error" -> truncate(snapshot.message, MessageLimit)

\* summarizeUsageSnapshot on a snapshot with its message: the summary, or Thrown.
summarized(snapshot) ==
    LET status == summarizeUsageSnapshot(Response(snapshot)) IN
    IF status = Thrown THEN [status |-> Thrown, message |-> <<>>]
    ELSE IF status = "ok" THEN [status |-> "ok", message |-> <<>>]
    ELSE [status |-> status, message |-> summaryMessage(snapshot)]

\* --------------------------------------------------------------- payloads
\* A JSON value as response.json() returns it, with its typeof; Absent is
\* what reading a property that is not there gives (undefined).
Absent == [type |-> "undefined"]
JNull == [type |-> "null"]
JTrue == [type |-> "boolean", value |-> TRUE]
JFalse == [type |-> "boolean", value |-> FALSE]
JZero == [type |-> "number", value |-> 0]
JSeven == [type |-> "number", value |-> 7]
JEmptyText == [type |-> "string", value |-> ""]
JText == [type |-> "string", value |-> "x"]

JObject(members) == [type |-> "object", value |-> members]

\* value.key: undefined on a primitive and for a key the object lacks.
Get(value, key) ==
    IF value.type = "object" /\ key \in DOMAIN value.value THEN value.value[key] ELSE Absent

\* value ?? other
Nullish(value) == value.type \in {"undefined", "null"}

\* !value
Falsy(value) == Nullish(value) \/ value \in {JFalse, JZero, JEmptyText}

\* typeof value === type ? value : null
OfType(value, type) == IF value.type = type THEN value ELSE JNull

\* The values a member that should hold a boolean / a number may hold.
BooleanMembers == {Absent, JNull, JText, JSeven, JTrue, JFalse}
NumberMembers == {Absent, JText, JTrue, JZero, JSeven}

RateWindows ==
    {Absent, JNull, JZero, JSeven, JText}
    \cup {JObject([used_percent |-> u, reset_after_seconds |-> r,
                   limit_window_seconds |-> l]) :
             u \in NumberMembers, r \in NumberMembers, l \in NumberMembers}

\* The windows the secondary window is drawn from (normalizeRateWindow is the
\* code of both windows).
FewRateWindows ==
    {Absent, JSeven,
     JObject([used_percent |-> JSeven, reset_after_seconds |-> JText,
              limit_window_seconds |-> Absent])}

RateLimits ==
    {Absent, JNull, JSeven, JText}
    \cup {JObject([allowed |-> a, limit_reached |-> r, primary_window |-> p,
                   secondary_window |-> q]) :
             a \in BooleanMembers, r \in BooleanMembers, p \in RateWindows,
             q \in FewRateWindows}

Credits ==
    {Absent, JNull, JZero, JSeven, JTrue}
    \cup {JObject([unlimited |-> u, balance |-> b]) :
             u \in BooleanMembers, b \in {Absent, JNull, JText}}

\* The bodies of a 2xx response: JSON null, a number, a string, a boolean, or
\* an object whose members are there or not, of the documented type or not.
Payloads ==
    {JNull, JZero, JSeven, JText, JTrue}
    \cup {JObject([plan_type |-> t, rate_limit |-> r, credits |-> Absent]) :
             t \in {Absent, JText}, r \in RateLimits}
    \cup {JObject([plan_type |-> JText, rate_limit |-> r, credits |-> c]) :
             r \in {Absent, JObject([allowed |-> JTrue, limit_reached |-> JFalse,
                                     primary_window |-> JNull,
                                     secondary_window |-> Absent])},
             c \in Credits}

\* normalizeRateWindow: null for a falsy window, else its three numbers.
normalizeRateWindow(window) ==
    IF Falsy(window) THEN JNull
    ELSE [usedPercent |-> OfType(Get(window, "used_percent"), "number"),
          resetAfterSeconds |-> OfType(Get(window, "reset_after_seconds"), "number"),
          limitWindowSeconds |-> OfType(Get(window, "limit_window_seconds"), "number")]

\* The "ok" case of summarizeUsageSnapshot on snapshot.data: reading
\* data.rate_limit throws when data is null.
summarizeOk(data) ==
    IF Nullish(data) THEN [status |-> Thrown]
    ELSE LET rateLimit == IF Nullish(Get(data, "rate_limit")) THEN JObject(<<>>)
                          ELSE Get(data, "rate_limit")
             window(key) == IF Nullish(Get(rateLimit, key)) THEN JNull
                            ELSE Get(rateLimit, key)
             credits == Get(data, "credits")
         IN [status |-> "ok",
             planType |-> IF Nullish(Get(data, "plan_type")) THEN JNull
                          ELSE Get(data, "plan_type"),
             rateLimit |->
                 [allowed |-> OfType(Get(rateLimit, "allowed"), "boolean"),
                  limitReached |-> OfType(Get(rateLimit, "limit_reached"), "boolean"),
                  primary |-> normalizeRateWindow(window("primary_window")),
                  secondary |-> normalizeRateWindow(window("secondary_window"))],
             credits |->
                 IF Falsy(credits) THEN JNull
                 ELSE [unlimited |-> OfType(Get(credits, "unlimited"), "boolean"),
                       balance |-> IF Get(credits, "balance") = Absent THEN JNull
                                   ELSE Get(credits, "balance")]]

shouldFetchLate(s, name, force) ==
    IF force THEN TRUE
    ELSE IF s.cache[name] = NoEntry THEN TRUE
    ELSE s.now - s.cache[name].fetchedAt > cacheTtlMs

shouldFetchForcedByPending(s, name, force) ==
    IF force \/ (IF s.pending # NoPending THEN s.pending.force ELSE FALSE) THEN TRUE
    ELSE IF s.cache[name] = NoEntry THEN TRUE
    ELSE s.now - s.cache[name].fetchedAt >= cacheTtlMs

shouldFetch(s, name, force) ==
    IF force THEN TRUE
    ELSE IF s.cache[name] = NoEntry THEN TRUE
    ELSE s.now - s.cache[name].fetchedAt >= cacheTtlMs

\* JSON.stringify(cache): the version and one member per key of cache.entries.
stringify(entries) ==
    [version |-> CACHE_VERSION,
     members |-> {[key |-> n, value |-> entries[n]] : n \in {m \in Names : entries[m] # NoEntry}}]

\* JSON.parse(raw).entries: the value of each key the text has a member for.
parse(raw) ==
    [n \in Names |->
        IF \E m \in raw.members : m.key = n
        THEN (CHOOSE m \in raw.members : m.key = n).value
        ELSE NoEntry]

saveCacheReloads(s, env) ==
    IF env.writeOk THEN Saved([s EXCEPT !.disk = s.cache], TRUE)
    ELSE Saved([s EXCEPT !.cache = s.disk], FALSE)

loadCacheForgets(f) == [version |-> CACHE_VERSION, entries |-> NoEntries]

\* loadCache: an empty cache for no file, for a file that cannot be read or
\* parsed, and for a value that is not an object; else the entries of the file
\* (none if it has no entries member), stamped with the current version.
loadCache(f) ==
    IF f.kind = "absent"
    THEN [version |-> CACHE_VERSION, entries |-> NoEntries]
    ELSE IF f.kind \in {"unreadable", "garbage"}
    THEN [version |-> CACHE_VERSION, entries |-> NoEntries]
    ELSE IF f.kind \in {"null", "scalar"}
    THEN [version |-> CACHE_VERSION, entries |-> NoEntries]
    ELSE [version |-> CACHE_VERSION,
          entries |-> IF f.kind = "no_entries" THEN NoEntries ELSE f.entries]

saveCacheSkips(s, env) == Saved(s, env.writeOk)

\* saveCache: the file takes the cache, or the write throws and is swallowed.
saveCache(s, env) ==
    IF env.writeOk THEN Saved([s EXCEPT !.disk = parse(stringify(s.cache))], TRUE)
    ELSE Saved(s, FALSE)

\* wrapSummary: null for no entry, else the entry with its age and staleness.
Null == [null |-> TRUE]

wrapSummaryLate(s, entry) ==
    IF entry = NoEntry THEN Null
    ELSE [summary |-> entry.summary, fetchedAt |-> entry.fetchedAt,
          ageMs |-> s.now - entry.fetchedAt,
          stale |-> s.now - entry.fetchedAt > cacheTtlMs]

wrapSummary(s, entry) ==
    IF entry = NoEntry THEN Null
    ELSE [summary |-> entry.summary, fetchedAt |-> entry.fetchedAt,
          ageMs |-> s.now - entry.fetchedAt,
          stale |-> s.now - entry.fetchedAt >= cacheTtlMs]

getSummary(s, name) == wrapSummary(s, s.cache[name])

getAllSummariesOfCached(s, names) ==
    [name \in {n \in names : s.cache[n] # NoEntry} |-> wrapSummary(s, s.cache[name])]

getAllSummaries(s, names) == [name \in names |-> wrapSummary(s, s.cache[name])]

\* What a read returned, kept with the step where steps are recorded.
Returned(s, result) ==
    IF "result" \in DOMAIN s.ev THEN [s EXCEPT !.ev.result = result] ELSE s

\* ------------------------------------------------- bookkeeping (not code)
\* The observer of one prune call counts the notification rounds that follow
\* it, by cause.  Another mutating call of the public interface ends the
\* observation.
Void == [void |-> TRUE]

Armed(o) == o # NoObs /\ o # Void

\* A listener was called: one more notification, unless the cause is another
\* operation than the observed call's prune and the batches' work.
ObsNote(o, cause) ==
    IF ~Armed(o) THEN o
    ELSE IF cause \in {"fetch", "reprune", "prune_call"} THEN [o EXCEPT !.total = @ + 1]
    ELSE Void

\* The cache was changed: by a fetch write ("fetch"), by the prune of a
\* refreshAccounts call ("prune_call") or by the prune applied when a pending
\* batch is dequeued ("reprune").  A second call that prunes ends the observation.
ObsWrite(o, cause) ==
    IF ~Armed(o) THEN o
    ELSE IF cause = "prune_call" /\ o.prune_call = 1 THEN Void
    ELSE [o EXCEPT ![cause] = @ + 1]

\* A call is forgotten once it has resolved and all its profiles were attempted.
Live(cs) == {c \in cs : ~(c.resolved /\ c.left = {})}

\* Batch b has attempted name: fetched it (request begun) or skipped it as fresh.
Attempted(s, b, name) ==
    [s EXCEPT !.calls =
        Live({[c EXCEPT !.left = IF c.batch = b THEN @ \ {name} ELSE @] : c \in s.calls})]

EmptyWant == [files |-> [n \in Names |-> 0], force |-> FALSE, prune |-> FALSE]

\* The request (accounts, force, prune) added to w: every name it lists takes
\* the credential path of its last occurrence, the flags are OR'd.
Combine(w, accounts, force, prune) ==
    [files |-> [n \in Names |->
                    IF \E i \in DOMAIN accounts : accounts[i].name = n
                    THEN LET last == CHOOSE i \in DOMAIN accounts :
                                        /\ accounts[i].name = n
                                        /\ \A j \in DOMAIN accounts :
                                              accounts[j].name = n => j <= i
                         IN accounts[last].authFile
                    ELSE w.files[n]],
     force |-> w.force \/ force,
     prune |-> w.prune \/ prune]

\* Has the entry for name reached the TTL (or is there none)?
Due(s, name) ==
    \/ s.cache[name] = NoEntry
    \/ s.now - s.cache[name].fetchedAt >= cacheTtlMs

\* The times and the count a batch's delays are followed with, where a batch's
\* log is kept: v where it is, else what the field held.
Noted(s, old, v) == IF Scope(s.scope).log THEN v ELSE old

\* The log of a batch: what it did with each account it reached.
Logged(s, log, name, act) ==
    IF Scope(s.scope).log
    THEN Append(log, [name |-> name, act |-> act, due |-> Due(s, name)])
    ELSE log

\* ------------------------------------------------------ the batch process
Settled ==
    [accounts |-> <<>>, force |-> FALSE, i |-> 1, first |-> TRUE, pc |-> "settled",
     wake |-> 0, tok |-> "ok", log |-> <<>>, origin |-> "none",
     waits |-> 0, began |-> -1, ended |-> -1]

Running(s) == {b \in DOMAIN s.procs : s.procs[b].pc \in {"delay", "fetch", "finished"}}

BeginFetchAlwaysRequests(s, b, env) ==
    LET p == s.procs[b]
        name == p.accounts[p.i].name
        s1 == [s EXCEPT !.procs[b] =
                  [p EXCEPT !.first = FALSE, !.pc = "fetch", !.tok = env.tok, !.wake = 0,
                            !.began = Noted(s, @, s.now)],
                        !.issuedAt = s.now]
    IN Attempted(s1, b, name)

\* fetchAndStore up to its await: fetchUsageSnapshot reads the credential file
\* and, with a usable token, issues the network request.
BeginFetch(s, b, env) ==
    LET p == s.procs[b]
        name == p.accounts[p.i].name
        s1 == [s EXCEPT !.procs[b] =
                  [p EXCEPT !.first = FALSE, !.pc = "fetch", !.tok = env.tok, !.wake = 0,
                            !.began = Noted(s, @, s.now)],
                        !.issuedAt = IF env.tok = "ok" THEN s.now ELSE @]
    IN Attempted(s1, b, name)

RECURSIVE refreshImplDelaysAfterSkip(_, _, _)
refreshImplDelaysAfterSkip(s, b, env) ==
    LET p == s.procs[b] IN
    IF p.i > Len(p.accounts)
    THEN [s EXCEPT !.procs[b] = [p EXCEPT !.pc = "finished", !.wake = 0, !.tok = "ok",
                                          !.began = -1, !.ended = -1]]
    ELSE LET name == p.accounts[p.i].name IN
         IF ~shouldFetch(s, name, p.force)
         THEN refreshImplDelaysAfterSkip(
                 Attempted([s EXCEPT !.procs[b] =
                              [p EXCEPT !.i = @ + 1, !.first = FALSE,
                                        !.log = Logged(s, @, name, "skip")]],
                           b, name),
                 b, env)
         ELSE LET s1 == [s EXCEPT !.procs[b].log = Logged(s, @, name, "fetch")] IN
              IF ~p.first
              THEN [s1 EXCEPT !.procs[b].pc = "delay",
                              !.procs[b].wake = s.now + fetchDelayMs,
                              !.procs[b].waits = Noted(s, @, @ + 1)]
              ELSE BeginFetch(s1, b, env)

\* refreshImpl from the head of its loop to its next await (or to its end).
RECURSIVE refreshImpl(_, _, _)
refreshImpl(s, b, env) ==
    LET p == s.procs[b] IN
    IF p.i > Len(p.accounts)
    THEN [s EXCEPT !.procs[b] = [p EXCEPT !.pc = "finished", !.wake = 0, !.tok = "ok",
                                          !.began = -1, !.ended = -1]]
    ELSE LET name == p.accounts[p.i].name IN
         IF ~shouldFetch(s, name, p.force)
         THEN refreshImpl(
                 Attempted([s EXCEPT !.procs[b] =
                              [p EXCEPT !.i = @ + 1,
                                        !.log = Logged(s, @, name, "skip")]],
                           b, name),
                 b, env)
         ELSE LET s1 == [s EXCEPT !.procs[b].log = Logged(s, @, name, "fetch")] IN
              IF ~p.first
              THEN [s1 EXCEPT !.procs[b].pc = "delay",
                              !.procs[b].wake = s.now + fetchDelayMs,
                              !.procs[b].waits = Noted(s, @, @ + 1)]
              ELSE BeginFetch(s1, b, env)

\* ------------------------------------------------------- enqueueRefresh
returnsResolved(s) == 0

\* return inFlight: the promise enqueueRefresh hands to its caller.
returned(s) == s.inFlight

busyNever(s) == FALSE

\* if (inFlight)
busy(s) == s.inFlight # 0

\* enqueueRefresh after its prune: merge into pending while a batch is in
\* flight, else start a batch.  origin is "api" (refreshAccounts called from
\* outside), "listener" (called from inside a notification) or "dequeue" (the
\* call the .finally callback makes for the pending batch).
enqueue(s, accounts, force, prune, origin, env) ==
    LET normalized == normalizeAccountsList(accounts)
        id == Len(s.procs) + 1
        call(awaits, batch, merged) ==
            [names |-> NamesOf(normalized), left |-> NamesOf(normalized),
             awaits |-> awaits, batch |-> batch, merged |-> merged, resolved |-> FALSE,
             during |-> IF Len(normalized) = 0 THEN 0
                        ELSE IF s.inFlight # 0 THEN s.inFlight ELSE id]
        record(st, c) ==
            IF origin = "dequeue" \/ ~Scope(s.scope).track THEN st
            ELSE [st EXCEPT !.calls = @ \cup {c}]
    IN
    IF Len(normalized) = 0
    THEN record(s, call(0, 0, FALSE))
    ELSE IF busy(s)
    THEN LET s1 == [s EXCEPT
                       !.pending =
                           IF s.pending # NoPending
                           THEN [accounts |-> mergeAccounts(s.pending.accounts, normalized),
                                 force |-> s.pending.force \/ force,
                                 pruneMissing |-> s.pending.pruneMissing \/ prune]
                           ELSE [accounts |-> normalized, force |-> force,
                                 pruneMissing |-> prune],
                       !.want =
                           [calls |-> IF origin = "dequeue" THEN @.calls
                                      ELSE Combine(@.calls, accounts, force, prune),
                            all |-> Combine(@.all, accounts, force, prune)]]
         IN record(s1, call(returned(s1), 0, TRUE))
    ELSE LET s1 == [s EXCEPT
                       !.inFlight = id,
                       !.want = [calls |-> EmptyWant, all |-> EmptyWant],
                       !.procs = Append(@, [accounts |-> normalized, force |-> force,
                                            i |-> 1, first |-> TRUE, pc |-> "start",
                                            wake |-> 0, tok |-> "ok", log |-> <<>>,
                                            origin |-> origin,
                                            waits |-> 0, began |-> -1, ended |-> -1]),
                       !.calls =
                           IF origin = "dequeue"
                           THEN {IF c.merged /\ c.batch = 0
                                    /\ c.names \subseteq NamesOf(normalized)
                                 THEN [c EXCEPT !.batch = id] ELSE c : c \in @}
                           ELSE @]
         IN refreshImpl(record(s1, call(returned(s1), id, FALSE)), id, env)

notifyStopsAtThrow(s, env, cause) ==
    LET s1 == IF s.listeners # {} THEN [s EXCEPT !.obs = ObsNote(@, cause)] ELSE s
        s2 == Invoked(s1, {l \in s.listeners :
                              \A t \in env.throws \cap s.listeners : l <= t})
    IN IF env.re = NoCall \/ s.listeners = {} THEN s2
       ELSE enqueue([s2 EXCEPT !.ncalls = @ + 1],
                    env.re.accounts, env.re.force, FALSE, "listener", env)

\* notify: every registered listener is called; one that throws (env.throws) is
\* caught and logged, and the loop goes on.
notify(s, env, cause) ==
    LET s0 == IF s.listeners # {} THEN [s EXCEPT !.obs = ObsNote(@, cause)] ELSE s
        s1 == Invoked(s0, s.listeners)
    IN IF env.re = NoCall \/ s.listeners = {} THEN s1
       ELSE enqueue([s1 EXCEPT !.ncalls = @ + 1],
                    env.re.accounts, env.re.force, FALSE, "listener", env)

pruneSkipsEmpty(s, accountNames, env, cause) ==
    LET missing == {n \in Names : s.cache[n] # NoEntry /\ n \notin accountNames} IN
    IF missing = {} \/ accountNames = {} THEN s
    ELSE notify(saveCache([s EXCEPT !.cache = [n \in Names |->
                                       IF n \in missing THEN NoEntry ELSE @[n]],
                                    !.obs = ObsWrite(@, cause)], env),
                env, cause)

pruneWhenIdle(s, accountNames, env, cause) ==
    LET missing == {n \in Names : s.cache[n] # NoEntry /\ n \notin accountNames} IN
    IF missing = {} \/ s.inFlight # 0 THEN s
    ELSE notify(saveCache([s EXCEPT !.cache = [n \in Names |->
                                       IF n \in missing THEN NoEntry ELSE @[n]],
                                    !.obs = ObsWrite(@, cause)], env),
                env, cause)

pruneAlwaysNotifies(s, accountNames, env, cause) ==
    LET missing == {n \in Names : s.cache[n] # NoEntry /\ n \notin accountNames} IN
    notify(saveCache([s EXCEPT !.cache = [n \in Names |->
                                  IF n \in missing THEN NoEntry ELSE @[n]],
                               !.obs = IF missing = {} THEN @ ELSE ObsWrite(@, cause)], env),
           env, cause)

pruneMissing(s, accountNames, env, cause) ==
    LET missing == {n \in Names : s.cache[n] # NoEntry /\ n \notin accountNames} IN
    IF missing = {} THEN s
    ELSE notify(saveCache([s EXCEPT !.cache = [n \in Names |->
                                       IF n \in missing THEN NoEntry ELSE @[n]],
                                    !.obs = ObsWrite(@, cause)], env),
                env, cause)

enqueueRefresh(s, accounts, force, prune, origin, env) ==
    LET names == NamesOf(normalizeAccountsList(accounts))
        s1 == IF prune
              THEN pruneMissing(s, names, env,
                                IF origin = "dequeue" THEN "reprune" ELSE "prune_call")
              ELSE s
    IN enqueue(s1, accounts, force, prune, origin, env)

abortOnThrow(s, b, threw, env) ==
    IF threw
    THEN [s EXCEPT !.procs[b].pc = "finished"]
    ELSE refreshImpl([s EXCEPT !.procs[b].i = @ + 1,
                               !.procs[b].ended = Noted(s, @, s.now)], b, env)

\* The try/catch of refreshImpl around fetchAndStore: whether or not it threw,
\* the loop goes on with the next account.
catchAndContinue(s, b, threw, env) ==
    refreshImpl([s EXCEPT !.procs[b].i = @ + 1,
                          !.procs[b].ended = Noted(s, @, s.now)], b, env)

fetchAndStoreOkOnly(s, b, snapshot, env) ==
    LET p == s.procs[b]
        name == p.accounts[p.i].name
        summary == summarizeUsageSnapshot(snapshot)
    IN IF summary # "ok"
       THEN catchAndContinue(s, b, summary = Thrown, env)
       ELSE catchAndContinue(
               notify(saveCache([s EXCEPT !.cache[name] =
                                    [summary |-> summary, fetchedAt |-> s.now],
                                          !.obs = ObsWrite(@, "fetch")], env),
                      env, "fetch"),
               b, FALSE, env)

\* fetchAndStore after its await: summarize, store, save, notify.
fetchAndStore(s, b, snapshot, env) ==
    LET p == s.procs[b]
        name == p.accounts[p.i].name
        summary == summarizeUsageSnapshot(snapshot)
    IN IF summary = Thrown
       THEN catchAndContinue(s, b, TRUE, env)
       ELSE catchAndContinue(
               notify(saveCache([s EXCEPT !.cache[name] =
                                    [summary |-> summary, fetchedAt |-> s.now],
                                          !.obs = ObsWrite(@, "fetch")], env),
                      env, "fetch"),
               b, FALSE, env)

finallyDropsPrune(s, b, env) ==
    LET s1 == [s EXCEPT !.inFlight = 0, !.procs[b] = Settled] IN
    IF s1.pending # NoPending
    THEN enqueueRefresh([s1 EXCEPT !.pending = NoPending],
                        s1.pending.accounts, s1.pending.force, FALSE, "dequeue", env)
    ELSE s1

finallyKeepsInFlight(s, b, env) ==
    [s EXCEPT !.procs[b] = Settled]

finallyKeepsPending(s, b, env) ==
    [s EXCEPT !.inFlight = 0, !.procs[b] = Settled]

\* The .finally callback of the batch promise.
finallyCallback(s, b, env) ==
    LET s1 == [s EXCEPT !.inFlight = 0, !.procs[b] = Settled] IN
    IF s1.pending # NoPending
    THEN enqueueRefresh([s1 EXCEPT !.pending = NoPending],
                        s1.pending.accounts, s1.pending.force,
                        s1.pending.pruneMissing, "dequeue", env)
    ELSE s1

invalidateCancels(s, env) ==
    notify(saveCache([s EXCEPT !.cache = [n \in Names |-> NoEntry],
                               !.pending = NoPending], env),
           env, "invalidate")

invalidateKeepsMemory(s, env) ==
    notify(saveCache(s, env), env, "invalidate")

invalidateCache(s, env) ==
    notify(saveCache([s EXCEPT !.cache = [n \in Names |-> NoEntry]], env),
           env, "invalidate")

removeAlwaysSaves(s, name, env) ==
    notify(saveCache([s EXCEPT !.cache[name] = NoEntry], env), env, "remove")

removeAccount(s, name, env) ==
    IF s.cache[name] # NoEntry
    THEN notify(saveCache([s EXCEPT !.cache[name] = NoEntry], env), env, "remove")
    ELSE s

renameCopies(s, oldName, newName, env) ==
    IF oldName = newName THEN s
    ELSE IF s.cache[oldName] # NoEntry
    THEN notify(saveCache([s EXCEPT !.cache[newName] = s.cache[oldName]], env),
                env, "rename")
    ELSE s

renameSilently(s, oldName, newName, env) ==
    IF oldName = newName THEN s
    ELSE IF s.cache[oldName] # NoEntry
    THEN saveCache([s EXCEPT !.cache[newName] = s.cache[oldName],
                             !.cache[oldName] = NoEntry], env)
    ELSE s

renameSavesBetween(s, oldName, newName, env) ==
    IF oldName = newName THEN s
    ELSE IF s.cache[oldName] # NoEntry
    THEN notify(saveCache([saveCache([s EXCEPT !.cache[newName] = s.cache[oldName]], env)
                              EXCEPT !.cache[oldName] = NoEntry], env),
                env, "rename")
    ELSE s

renameAccount(s, oldName, newName, env) ==
    IF oldName = newName THEN s
    ELSE IF s.cache[oldName] # NoEntry
    THEN notify(saveCache([s EXCEPT !.cache[newName] = s.cache[oldName],
                                    !.cache[oldName] = NoEntry], env),
                env, "rename")
    ELSE s
readTakes(s, names) ==
    [s EXCEPT !.cache = [n \in Names |-> IF n \in names THEN NoEntry ELSE @[n]]]

\* The state a call of getSummary or getAllSummaries for names leaves: they
\* read cache.entries and Date.now() and write nothing.
read(s, names) == s

\* ------------------------------------------------------------ environment
\* The environment's choices for a step.  canStart: a credential file may be
\* read; mayNotify: the cache may be written and listeners called.
Envs(canStart, mayNotify, budget) ==
    [tok : IF canStart THEN Scope(scope).toks ELSE {"ok"},
     writeOk : IF mayNotify THEN Scope(scope).writes ELSE {TRUE},
     re : IF mayNotify /\ listeners # {} /\ budget > 0
          THEN {NoCall} \cup Scope(scope).relists ELSE {NoCall},
     throws : IF mayNotify /\ listeners # {}
              THEN {ls \cap listeners : ls \in Scope(scope).throws} ELSE {{}}]

\* ----------------------------------------------------------------- actions
\* createUsageManager
Create(sc) ==
    /\ scope = sc
    /\ \E f \in CacheFiles(Scope(sc)) :
          /\ disk = f.entries
          /\ cache = loadCache(f).entries
          /\ ev = IF "create" \in Scope(sc).trace
                  THEN [op |-> "create", file |-> f, version |-> loadCache(f).version]
                  ELSE Quiet
    /\ inFlight = 0
    /\ pending = NoPending
    /\ listeners = {}
    /\ procs = <<>>
    /\ calls = {}
    /\ ncalls = 0
    /\ now = StartTime
    /\ issuedAt = -1
    /\ lastFetchEnd = -1
    /\ want = [calls |-> EmptyWant, all |-> EmptyWant]
    /\ obs = NoObs

\* A prune call is observed when it removes an entry while a batch is fetching
\* profiles none of which it lists.
Observe(accounts, prune) ==
    IF /\ Scope(scope).observe
       /\ obs = NoObs
       /\ listeners # {}
       /\ prune
       /\ inFlight # 0
       /\ procs[inFlight].pc \in {"fetch", "delay"}
       /\ NamesOf(procs[inFlight].accounts) \cap NamesOf(accounts) = {}
       /\ \E n \in Names : cache[n] # NoEntry /\ n \notin NamesOf(accounts)
    THEN [total |-> 0, fetch |-> 0, prune_call |-> 0, reprune |-> 0]
    ELSE obs

RefreshAccounts ==
    /\ ncalls < Scope(scope).calls
    /\ \E accounts \in Scope(scope).lists, force \in BOOLEAN, prune \in BOOLEAN :
         \E env \in Envs(inFlight = 0,
                          prune /\ \E n \in Names :
                                      cache[n] # NoEntry /\ n \notin NamesOf(accounts),
                          Scope(scope).calls - ncalls - 1) :
            Becomes(enqueueRefresh(
                Did([Cur EXCEPT !.ncalls = @ + 1, !.obs = Observe(accounts, prune)],
                    Step([op |-> "refreshAccounts", names |-> NamesOf(accounts) \cap Names,
                          prune |-> prune, busy |-> inFlight # 0,
                          had |-> {n \in Names : cache[n] # NoEntry}], env)),
                accounts, force, prune, "api", env))

InvalidateCache ==
    \E env \in Envs(FALSE, TRUE, Scope(scope).calls - ncalls) :
        Becomes(invalidateCache(Did(Cur, Step([op |-> "invalidateCache"], env)), env))

RemoveAccount ==
    \E name \in Names, env \in Envs(FALSE, TRUE, Scope(scope).calls - ncalls) :
        Becomes(removeAccount(
            Did(Cur, Step([op |-> "removeAccount", name |-> name], env)), name, env))

RenameAccount ==
    \E oldName \in Names, newName \in Names,
       env \in Envs(FALSE, TRUE, Scope(scope).calls - ncalls) :
        Becomes(renameAccount(
            Did(Cur, Step([op |-> "renameAccount", oldName |-> oldName,
                           newName |-> newName, issuedAt |-> issuedAt,
                           procs |-> procs], env)),
            oldName, newName, env))

GetSummary ==
    \E name \in Names, env \in Envs(FALSE, FALSE, 0) :
        LET s0 == Did(Cur, Step([op |-> "getSummary", name |-> name, result |-> Null,
                                 issuedAt |-> issuedAt, procs |-> procs], env))
        IN Becomes(Returned(read(s0, {name}), getSummary(read(s0, {name}), name)))

GetAllSummaries ==
    \E names \in SUBSET Names, env \in Envs(FALSE, FALSE, 0) :
        LET s0 == Did(Cur, Step([op |-> "getAllSummaries", names |-> names, result |-> Null,
                                 issuedAt |-> issuedAt, procs |-> procs], env))
        IN Becomes(Returned(read(s0, names), getAllSummaries(read(s0, names), names)))

OnUpdate ==
    \E l \in Scope(scope).listeners :
        Becomes(Did([Cur EXCEPT !.listeners = @ \cup {l}], [op |-> "onUpdate", l |-> l]))

UnsubscribeClears ==
    \E l \in Scope(scope).listeners :
        Becomes(Did([Cur EXCEPT !.listeners = {},
                                !.obs = IF Armed(@) THEN Void ELSE @],
                    [op |-> "unsubscribe", l |-> l]))

\* The function onUpdate(l) returned is called: listeners.delete(l).
Unsubscribe ==
    \E l \in Scope(scope).listeners :
        Becomes(Did([Cur EXCEPT !.listeners = @ \ {l},
                                !.obs = IF Armed(@) THEN Void ELSE @],
                    [op |-> "unsubscribe", l |-> l]))

Tick ==
    /\ now < Scope(scope).time
    /\ Becomes(Did([Cur EXCEPT !.now = @ + 1], [op |-> "tick"]))

\* Time passes while a batch waits in delay(fetchDelayMs): the clock moves
\* towards the time its timer is set for.
DelayPasses ==
    \E b \in DOMAIN procs :
        /\ procs[b].pc = "delay"
        /\ now < procs[b].wake
        /\ Becomes(Did([Cur EXCEPT !.now = @ + 1], [op |-> "tick"]))

\* setTimeout of delay(fetchDelayMs) fires: refreshImpl goes on to fetchAndStore.
DelayElapsed ==
    \E b \in DOMAIN procs :
        /\ procs[b].pc = "delay"
        /\ now >= procs[b].wake
        /\ \E env \in Envs(TRUE, FALSE, 0) :
              Becomes(BeginFetch(Did(Cur, [op |-> "delay"]), b, env))

\* fetchUsageSnapshot settles: refreshImpl stores the result and goes on.
FetchSettled ==
    \E b \in DOMAIN procs :
        /\ procs[b].pc = "fetch"
        /\ \E resp \in (IF procs[b].tok = "ok" THEN Scope(scope).resps ELSE {procs[b].tok}),
              env \in Envs(TRUE, TRUE, Scope(scope).calls - ncalls) :
              Becomes(fetchAndStore(
                  Did([Cur EXCEPT !.issuedAt = -1,
                                  !.lastFetchEnd = IF procs[b].tok = "ok" THEN now ELSE @],
                      Step([op |-> "fetch", batch |-> b, i |-> procs[b].i,
                            name |-> procs[b].accounts[procs[b].i].name,
                            tok |-> procs[b].tok, resp |-> resp, force |-> procs[b].force,
                            issued |-> issuedAt # -1], env)),
                  b, resp, env))

\* The batch promise settles: its .finally callback runs.
BatchFinally ==
    \E b \in DOMAIN procs :
        /\ procs[b].pc = "finished"
        /\ \E env \in Envs(TRUE, pending # NoPending, Scope(scope).calls - ncalls) :
              Becomes(finallyCallback(Did(Cur, Step([op |-> "finally", batch |-> b], env)), b, env))

\* A caller awaiting the promise refreshAccounts returned goes on.
CallerResumes ==
    \E c \in calls :
        /\ ~c.resolved
        /\ IF c.awaits = 0 THEN TRUE ELSE procs[c.awaits].pc = "settled"
        /\ Becomes(Did([Cur EXCEPT !.calls =
                           Live((@ \ {c}) \cup {[c EXCEPT !.resolved = TRUE]})],
                       [op |-> "resolve", merged |-> c.merged, during |-> c.during]))

\* The process ends and createUsageManager runs again in a new process, on the
\* cache file the old one left: saveCache wrote it, so it is well-formed and of
\* this version.  Nothing of the old closure survives.
Restart ==
    LET cacheFile == [kind |-> "valid", version |-> CACHE_VERSION, entries |-> disk] IN
    Becomes(Did([Cur EXCEPT
                    !.cache = loadCache(cacheFile).entries,
                    !.inFlight = 0,
                    !.pending = NoPending,
                    !.listeners = {},
                    !.procs = <<>>,
                    !.calls = {},
                    !.issuedAt = -1,
                    !.lastFetchEnd = -1,
                    !.want = [calls |-> EmptyWant, all |-> EmptyWant],
                    !.obs = NoObs],
                [op |-> "restart", file |-> disk, before |-> cache]))

InitCoord == Create("coord")

NextCoord ==
    \/ RefreshAccounts
    \/ InvalidateCache
    \/ RemoveAccount
    \/ RenameAccount
    \/ OnUpdate
    \/ Unsubscribe
    \/ Tick
    \/ DelayElapsed
    \/ FetchSettled
    \/ BatchFinally

SpecCoord == InitCoord /\ [][NextCoord]_vars

InitMerge == Create("merge")

NextMerge ==
    \/ RefreshAccounts
    \/ OnUpdate
    \/ Unsubscribe
    \/ Tick
    \/ DelayElapsed
    \/ FetchSettled
    \/ BatchFinally

SpecMerge == InitMerge /\ [][NextMerge]_vars

InitCalls == Create("calls")

NextCalls ==
    \/ RefreshAccounts
    \/ OnUpdate
    \/ Unsubscribe
    \/ Tick
    \/ DelayElapsed
    \/ FetchSettled
    \/ BatchFinally
    \/ CallerResumes

SpecCalls == InitCalls /\ [][NextCalls]_vars

InitTime == Create("time")

NextTime ==
    \/ RefreshAccounts
    \/ Tick
    \/ DelayElapsed
    \/ FetchSettled
    \/ BatchFinally

SpecTime == InitTime /\ [][NextTime]_vars

InitPrune == Create("prune")

NextPrune ==
    \/ RefreshAccounts
    \/ OnUpdate
    \/ Unsubscribe
    \/ Tick
    \/ DelayElapsed
    \/ FetchSettled
    \/ BatchFinally

SpecPrune == InitPrune /\ [][NextPrune]_vars

InitDirect == Create("direct")

NextDirect ==
    \/ RefreshAccounts
    \/ GetSummary
    \/ GetAllSummaries
    \/ InvalidateCache
    \/ RemoveAccount
    \/ RenameAccount
    \/ OnUpdate
    \/ Unsubscribe
    \/ Tick
    \/ FetchSettled
    \/ BatchFinally

SpecDirect == InitDirect /\ [][NextDirect]_vars

InitFaults == Create("faults")

NextFaults ==
    \/ RefreshAccounts
    \/ InvalidateCache
    \/ RemoveAccount
    \/ RenameAccount
    \/ OnUpdate
    \/ Unsubscribe
    \/ Tick
    \/ DelayElapsed
    \/ FetchSettled
    \/ BatchFinally

SpecFaults == InitFaults /\ [][NextFaults]_vars

InitLoad == Create("load")

NextLoad ==
    \/ RefreshAccounts
    \/ Tick
    \/ DelayElapsed
    \/ FetchSettled
    \/ BatchFinally

SpecLoad == InitLoad /\ [][NextLoad]_vars

InitLive == Create("live")

NextLive ==
    \/ RefreshAccounts
    \/ OnUpdate
    \/ Unsubscribe
    \/ Tick
    \/ DelayPasses
    \/ DelayElapsed
    \/ FetchSettled
    \/ BatchFinally

\* A network call is outstanding: FetchSettled is enabled exactly then.
Fetching == \E b \in DOMAIN procs : procs[b].pc = "fetch"

\* A batch promise has settled and its finally callback has not run:
\* BatchFinally is enabled exactly then.
Finishing == \E b \in DOMAIN procs : procs[b].pc = "finished"

\* Every inter-call delay elapses (the timer fires), every network call
\* settles (the request is aborted after REQUEST_TIMEOUT_MS at the latest),
\* and the event loop runs the callbacks of a settled batch promise. The last
\* two conditions are weak fairness of FetchSettled and of BatchFinally with
\* the enabling condition written out as Fetching and Finishing.
SpecLive ==
    /\ InitLive
    /\ [][NextLive]_vars
    /\ WF_vars(DelayPasses)
    /\ WF_vars(DelayElapsed)
    /\ ([]<>~Fetching \/ []<><<FetchSettled>>_vars)
    /\ ([]<>~Finishing \/ []<><<BatchFinally>>_vars)

InitServe == Create("serve")

NextServe ==
    \/ RefreshAccounts
    \/ OnUpdate
    \/ Unsubscribe
    \/ Tick
    \/ DelayPasses
    \/ DelayElapsed
    \/ FetchSettled
    \/ BatchFinally

\* The assumptions of SpecLive, with every call followed.
SpecServe ==
    /\ InitServe
    /\ [][NextServe]_vars
    /\ WF_vars(DelayPasses)
    /\ WF_vars(DelayElapsed)
    /\ ([]<>~Fetching \/ []<><<FetchSettled>>_vars)
    /\ ([]<>~Finishing \/ []<><<BatchFinally>>_vars)

InitEmpty == Create("empty")

NextEmpty ==
    \/ RefreshAccounts
    \/ OnUpdate
    \/ Unsubscribe
    \/ Tick
    \/ DelayElapsed
    \/ FetchSettled
    \/ BatchFinally

SpecEmpty == InitEmpty /\ [][NextEmpty]_vars

InitRestart == Create("restart")

NextRestart ==
    \/ RefreshAccounts
    \/ Tick
    \/ DelayElapsed
    \/ FetchSettled
    \/ BatchFinally
    \/ Restart

SpecRestart == InitRestart /\ [][NextRestart]_vars

\* One fetch on its own: what is read at the credential path and what the
\* endpoint replies, then fetchUsageSnapshot, then summarizeUsageSnapshot.
FetchInputs ==
    [op : {"input"}, authFile : {"unreadable", "garbage", "null"}, thrown : Texts,
     reply : {NoReply}]
    \cup [op : {"input"}, authFile : AuthFileStates \ {"complete"}, thrown : {<<>>},
          reply : {NoReply}]
    \cup [op : {"input"}, authFile : {"complete"}, thrown : {<<>>}, reply : Replies]

InitFetch ==
    /\ scope = "fetch"
    /\ ev \in FetchInputs
    /\ cache = NoEntries
    /\ disk = NoEntries
    /\ inFlight = 0
    /\ pending = NoPending
    /\ listeners = {}
    /\ procs = <<>>
    /\ calls = {}
    /\ ncalls = 0
    /\ now = StartTime
    /\ issuedAt = -1
    /\ lastFetchEnd = -1
    /\ want = [calls |-> EmptyWant, all |-> EmptyWant]
    /\ obs = NoObs

FetchUsageSnapshot ==
    /\ ev.op = "input"
    /\ ev' = [op |-> "snapshot", authFile |-> ev.authFile, thrown |-> ev.thrown,
              reply |-> ev.reply,
              snapshot |-> fetchUsageSnapshot(ev.authFile, ev.thrown, ev.reply)]
    /\ UNCHANGED <<cache, disk, inFlight, pending, listeners, procs, calls, ncalls, now,
                   issuedAt, lastFetchEnd, want, obs, scope>>

Summarize ==
    /\ ev.op = "snapshot"
    /\ ev' = [op |-> "summary", authFile |-> ev.authFile, thrown |-> ev.thrown,
              reply |-> ev.reply, snapshot |-> ev.snapshot,
              summary |-> summarized(ev.snapshot)]
    /\ UNCHANGED <<cache, disk, inFlight, pending, listeners, procs, calls, ncalls, now,
                   issuedAt, lastFetchEnd, want, obs, scope>>

NextFetch ==
    \/ FetchUsageSnapshot
    \/ Summarize

SpecFetch == InitFetch /\ [][NextFetch]_vars

\* The summarizer on its own: the body of a 2xx response, then the "ok" case
\* of summarizeUsageSnapshot.
InitPayload ==
    /\ scope = "payload"
    /\ ev \in [op : {"payload"}, data : Payloads]
    /\ cache = NoEntries
    /\ disk = NoEntries
    /\ inFlight = 0
    /\ pending = NoPending
    /\ listeners = {}
    /\ procs = <<>>
    /\ calls = {}
    /\ ncalls = 0
    /\ now = StartTime
    /\ issuedAt = -1
    /\ lastFetchEnd = -1
    /\ want = [calls |-> EmptyWant, all |-> EmptyWant]
    /\ obs = NoObs

SummarizeOk ==
    /\ ev.op = "payload"
    /\ ev' = [op |-> "okSummary", data |-> ev.data, summary |-> summarizeOk(ev.data)]
    /\ UNCHANGED <<cache, disk, inFlight, pending, listeners, procs, calls, ncalls, now,
                   issuedAt, lastFetchEnd, want, obs, scope>>

NextPayload == SummarizeOk

SpecPayload == InitPayload /\ [][NextPayload]_vars

\* ------------------------------------------------------------------ claims
Outstanding == {b \in DOMAIN procs : procs[b].pc = "fetch" /\ procs[b].tok = "ok"}

\* C1: at most one batch is running and at most one network request is
\* outstanding, in every state reached by any interleaving of refreshAccounts
\* calls (also from inside a notification), batch steps and direct cache
\* operations.
C1_OneSequenceInFlight ==
    /\ Cardinality(Running(Cur)) <= 1
    /\ Cardinality(Outstanding) <= 1
    /\ Running(Cur) \subseteq {inFlight}

\* A second batch is fetching with a pending batch queued behind it.
C1_Witness ==
    /\ Len(procs) >= 2
    /\ inFlight = Len(procs)
    /\ Outstanding = {inFlight}
    /\ pending # NoPending

\* C2: a pending batch exists only while a batch is in flight, and the calls
\* made while one batch is in flight leave one pending batch.
C2_PendingOnlyInFlight ==
    /\ pending # NoPending => inFlight # 0 /\ inFlight \in Running(Cur)
    /\ want.calls # EmptyWant => pending # NoPending

\* Two calls were merged into the pending batch of the first.
C2_Witness ==
    /\ ncalls = 3
    /\ Len(procs) = 1
    /\ pending # NoPending
    /\ Len(pending.accounts) = 2

\* The pending batch holds exactly the request w: its names, each once and with
\* its credential path, and its flags.
PendingIs(w) ==
    /\ NamesOf(pending.accounts) = {n \in Names : w.files[n] # 0}
    /\ \A i, j \in DOMAIN pending.accounts :
          pending.accounts[i].name = pending.accounts[j].name => i = j
    /\ \A i \in DOMAIN pending.accounts :
          pending.accounts[i].authFile = w.files[pending.accounts[i].name]
    /\ pending.force = w.force
    /\ pending.pruneMissing = w.prune

\* C10 as stated: the pending batch is the merge of the refreshAccounts calls
\* made since the batch in flight started.
C10_Original == pending # NoPending => PendingIs(want.calls)

\* C10: the pending batch is the merge (names united, latest credential path,
\* flags OR'd) of the requests enqueued since the batch in flight started: the
\* refreshAccounts calls and a dequeued pending batch that found a batch
\* started by a listener already in flight.
C10_PendingIsMerge == pending # NoPending => PendingIs(want.all)

\* Two calls naming the same profile with different credential paths and
\* different flags were merged.
C10_Witness ==
    /\ pending # NoPending
    /\ ncalls = 3
    /\ Len(procs) = 1
    /\ \E i \in DOMAIN pending.accounts : pending.accounts[i].authFile = 2
    /\ Len(pending.accounts) = 2
    /\ pending.force

\* C3 as stated: a call made while a batch was in flight has resolved only if
\* every profile it named has been attempted (request begun, or skipped as
\* fresh) by the batch it was merged into.
C3_NoEarlyReturn ==
    \A c \in calls : c.merged /\ c.resolved => c.left = {}

\* The names batch b has issued a fetch for, in order.
FetchedBy(b) ==
    SelectSeq(procs[b].log, LAMBDA e : e.act = "fetch")

\* C4: a batch fetches each profile name at most once, and the calls that
\* arrived while one batch was in flight are served by one later batch, which
\* lists every profile they named.
C4_Coalescing ==
    /\ \A b \in Running(Cur) :
          \A i, j \in DOMAIN FetchedBy(b) :
              FetchedBy(b)[i].name = FetchedBy(b)[j].name => i = j
    /\ \A c, d \in calls :
          c.merged /\ d.merged /\ c.awaits = d.awaits => c.batch = d.batch
    /\ \A c \in calls :
          c.batch # 0 /\ c.batch \in Running(Cur)
              => c.names \subseteq NamesOf(procs[c.batch].accounts)

\* Two calls with overlapping profile sets arrived while the first batch was in
\* flight; the second batch serves both and has fetched the shared profile.
C4_Witness ==
    /\ Len(procs) = 2
    /\ 2 \in Running(Cur)
    /\ \E c, d \in calls :
          /\ c.merged /\ d.merged /\ c.awaits = 1 /\ d.awaits = 1
          /\ c.batch = 2 /\ d.batch = 2
          /\ c.names # d.names
          /\ \E n \in c.names \cap d.names :
                \E i \in DOMAIN FetchedBy(2) : FetchedBy(2)[i].name = n

\* C5: a batch without force fetches a profile exactly when, at the moment it
\* reaches it, the profile has no entry or its entry's age is at least the
\* TTL; a forced batch fetches every profile it reaches.
C5_TtlGating ==
    \A b \in Running(Cur) :
        \A i \in DOMAIN procs[b].log :
            LET e == procs[b].log[i] IN
            IF procs[b].force THEN e.act = "fetch"
            ELSE (e.act = "fetch") <=> e.due

\* A batch without force has skipped an entry one unit old and is fetching a
\* profile whose entry is cacheTtlMs + 1 units old (5 and 20 minutes, in units
\* of 5 minutes).
C5_Witness ==
    /\ inFlight # 0
    /\ ~procs[inFlight].force
    /\ procs[inFlight].pc = "fetch"
    /\ procs[inFlight].log = <<[name |-> "b", act |-> "skip", due |-> FALSE],
                               [name |-> "a", act |-> "fetch", due |-> TRUE]>>
    /\ cache["a"] # NoEntry /\ now - cache["a"].fetchedAt = cacheTtlMs + 1
    /\ cache["b"] # NoEntry /\ now - cache["b"].fetchedAt = 1

\* C6 as stated: a network request issued by a batch after another request
\* of the same batch, or as the first request of a pending batch started when
\* the batch before it completed, is issued at least fetchDelayMs after the
\* previous request completed.
C6_MinimumDelay ==
    \A b \in Outstanding :
        /\ lastFetchEnd # -1
        /\ \/ procs[b].origin = "dequeue"
           \/ Len(FetchedBy(b)) >= 2
        => issuedAt - lastFetchEnd >= fetchDelayMs

\* C7: a batch that has finished has attempted every account of its list,
\* whatever the fetches before did (credential failure, error response, a throw
\* inside fetchAndStore), and its promise is settled by the .finally callback.
C7_FailureDoesNotAbort ==
    \A b \in DOMAIN procs :
        procs[b].pc = "finished" =>
            /\ procs[b].i = Len(procs[b].accounts) + 1
            /\ {procs[b].log[i].name : i \in DOMAIN procs[b].log}
                  = NamesOf(procs[b].accounts)

\* The only call listed a, then b; the fetch of a threw (nothing was stored for
\* it) and b was fetched and stored all the same.
C7_Witness ==
    /\ ncalls = 1
    /\ Len(procs) = 1
    /\ procs[1].pc = "finished"
    /\ Len(FetchedBy(1)) = 2
    /\ FetchedBy(1)[1].name = "a"
    /\ cache["a"] = NoEntry
    /\ cache["b"] # NoEntry /\ cache["b"].fetchedAt > StartTime

\* C8: when refreshAccounts(list, {pruneMissing: true}) has returned, the
\* cache holds no entry for a name absent from list, whether or not a batch was
\* in flight at the call; the fetch the call may have started has only been
\* issued, nothing was written since the deletion.
C8_PruneIsSynchronous ==
    ev.op = "refreshAccounts" /\ ev.prune =>
        \A n \in Names : cache[n] # NoEntry => n \in ev.names /\ n \in ev.had

\* A prune call made while a batch was fetching a profile it does not list has
\* returned, and the entry of that profile is gone.
C8_Witness ==
    /\ ev.op = "refreshAccounts" /\ ev.prune /\ ev.busy
    /\ inFlight # 0
    /\ procs[inFlight].pc = "fetch"
    /\ NamesOf(procs[inFlight].accounts) \cap ev.names = {}
    /\ NamesOf(procs[inFlight].accounts) \cap ev.had # {}
    /\ ev.names # {}

\* C9 as stated: after a prune call that removed an entry while a batch was
\* fetching profiles it does not list, the listener has been called once for
\* the prune and once per fetch write since, and not otherwise.
C9_Original ==
    Armed(obs) => obs.total = 1 + obs.fetch

\* C9: after such a call the listener has been called once for the call's
\* prune, once per fetch write since, and once each time the prune was applied
\* again and removed an entry when the pending batch carrying the call's
\* pruneMissing flag was dequeued; and not otherwise.
C9_PruneNotifications ==
    Armed(obs) =>
        /\ obs.prune_call = 1
        /\ obs.total = 1 + obs.fetch + obs.reprune

\* The batch in flight at the call wrote the entry again, and the prune applied
\* at the dequeue of the pending batch removed it a second time.
C9_Witness ==
    /\ Armed(obs)
    /\ obs.fetch >= 1
    /\ obs.reprune >= 1

\* C11: every call made with a non-empty list holds the promise of the batch
\* that was in flight when it returned (the batch it started included), so the
\* callers of one batch resolve together; and a caller resumes only when that
\* batch has gone through all of its profiles and settled.
C11_ResolveTogether ==
    /\ \A c \in calls : c.names # {} => c.awaits = c.during
    /\ ev.op = "resolve" /\ ev.during # 0 => procs[ev.during].pc = "settled"

\* The caller that started batch 1 and a caller merged while it was in flight
\* have both resumed, the merged one last.
C11_Witness ==
    /\ ev.op = "resolve" /\ ev.merged /\ ev.during = 1
    /\ ncalls >= 2
    /\ \A c \in calls : c.during = 1 => c.resolved

\* The names that had an entry when the step recorded in ev began.
Cached(e) == {n \in Names : e.before[n] # NoEntry}

\* C12: in the state invalidateCache returns in, getAllSummaries gives null for
\* every name that had an entry, whatever the coordinator was doing.
C12_InvalidateThenAbsent ==
    ev.op = "invalidateCache" =>
        \A n \in Cached(ev) : getAllSummaries(Cur, Cached(ev))[n] = Null

\* invalidateCache was called with entries cached, a batch fetching and a
\* pending batch behind it.
C12_Witness ==
    /\ ev.op = "invalidateCache"
    /\ Cached(ev) = Names
    /\ ev.flight # 0 /\ ev.pend # NoPending
    /\ inFlight # 0 /\ procs[inFlight].pc = "fetch"

\* C13: getSummary(name).stale is true exactly when now - fetchedAt has
\* reached the TTL, so only once the clock has advanced by the TTL since the
\* entry was written; in the state a fetch stored an entry in, its age is 0 and
\* it is not stale.
C13_Staleness ==
    /\ \A n \in Names :
          cache[n] # NoEntry =>
              /\ getSummary(Cur, n).ageMs = now - cache[n].fetchedAt
              /\ getSummary(Cur, n).stale <=> now >= cache[n].fetchedAt + cacheTtlMs
    /\ ev.op = "fetch" /\ ev.resp # "ok_null" =>
          /\ getSummary(Cur, ev.name) # Null
          /\ getSummary(Cur, ev.name).ageMs = 0
          /\ ~getSummary(Cur, ev.name).stale

\* An entry written by a fetch of this run has become stale: the clock has
\* advanced by the TTL since.
C13_Witness ==
    \E n \in Names :
        /\ cache[n] # NoEntry
        /\ cache[n].fetchedAt >= StartTime
        /\ now = cache[n].fetchedAt + cacheTtlMs
        /\ getSummary(Cur, n).stale

\* C14 as stated: createUsageManager over anything but a well-formed cache
\* file of the current version (no file, unreadable, unparsable, not an object,
\* another version) starts with the current version and no entries.
C14_LoadDegradesToEmpty ==
    ev.op = "create" /\ (ev.file.kind # "valid" \/ ev.file.version # CACHE_VERSION) =>
        /\ ev.version = CACHE_VERSION
        /\ cache = NoEntries

\* Did the step recorded in e change the cache?  (It saved the cache file.)
Mutated(e) == "saves" \in DOMAIN e /\ e.saves > 0

\* The cache holds what the operation recorded in ev made of the cache it
\* started from.
Reflects ==
    CASE ev.op = "invalidateCache" -> cache = NoEntries
      [] ev.op = "removeAccount" ->
            cache = [ev.before EXCEPT ![ev.name] = NoEntry]
      [] ev.op = "renameAccount" ->
            cache = [ev.before EXCEPT ![ev.newName] = ev.before[ev.oldName],
                                      ![ev.oldName] = NoEntry]
      [] ev.op = "fetch" ->
            cache = [ev.before EXCEPT ![ev.name] =
                        [summary |-> summarizeUsageSnapshot(ev.resp), fetchedAt |-> now]]
      [] ev.op = "refreshAccounts" ->
            cache = [n \in Names |-> IF n \in ev.names THEN ev.before[n] ELSE NoEntry]
      [] OTHER -> TRUE

\* C15: when the cache-file write of a fetch store, prune, invalidate, remove
\* or rename fails, the file is as it was, the cache in memory holds the
\* mutation, every registered listener was notified, a batch goes on to its next
\* profile, and getSummary reads the cache in memory.
C15_WriteFailureAbsorbed ==
    Mutated(ev) /\ ev.failed =>
        /\ disk = ev.file
        /\ Reflects
        /\ \A l \in ev.subs : ev.invoked[l] = 1
        /\ ev.op = "fetch" => procs[ev.batch].i > ev.i
        /\ \A n \in Names : (getSummary(Cur, n) = Null) <=> (cache[n] = NoEntry)
        /\ \A n \in Names : cache[n] # NoEntry =>
              getSummary(Cur, n).fetchedAt = cache[n].fetchedAt

\* The write of a fetch store failed: the entry is in memory and read from
\* there, the file has none, and the batch went on to its second profile.
C15_Witness ==
    /\ ev.op = "fetch" /\ Mutated(ev) /\ ev.failed
    /\ ev.subs = Listeners
    /\ disk[ev.name] = NoEntry
    /\ getSummary(Cur, ev.name) # Null
    /\ procs[ev.batch].pc = "delay"

\* C16: when a registered listener throws during the notification of a fetch
\* store, prune, invalidate, remove or rename, every registered listener has
\* still been called once, the operation has changed the cache and saved it
\* once, and a batch goes on with its next profile.
C16_ListenerIsolation ==
    Mutated(ev) /\ ev.threw # {} =>
        /\ \A l \in Listeners : ev.invoked[l] = IF l \in ev.subs THEN 1 ELSE 0
        /\ Reflects
        /\ ev.saves = 1
        /\ ~ev.failed => disk = cache
        /\ ev.op = "fetch" =>
              /\ procs[ev.batch].i > ev.i
              /\ procs[ev.batch].pc \in {"delay", "fetch", "finished"}

\* Listener 1 threw when the first profile of a batch was stored; listener 2
\* was called all the same and the batch waits to fetch its second profile.
C16_Witness ==
    /\ ev.op = "fetch" /\ Mutated(ev)
    /\ ev.threw = {1} /\ ev.subs = Listeners
    /\ ev.invoked[2] = 1
    /\ procs[ev.batch].pc = "delay"

\* The operation recorded in ev was a cache mutation: a fetch that stored its
\* result, a prune (of a call, or of a dequeued pending batch) with an entry to
\* remove, an invalidateCache, a removeAccount of a cached name, a
\* renameAccount of a cached name to another name.
Mutation ==
    CASE ev.op = "invalidateCache" -> TRUE
      [] ev.op = "removeAccount" -> ev.before[ev.name] # NoEntry
      [] ev.op = "renameAccount" ->
            ev.oldName # ev.newName /\ ev.before[ev.oldName] # NoEntry
      [] ev.op = "fetch" -> summarizeUsageSnapshot(ev.resp) # Thrown
      [] ev.op = "refreshAccounts" ->
            ev.prune /\ \E n \in Names : ev.before[n] # NoEntry /\ n \notin ev.names
      [] ev.op = "finally" ->
            /\ ev.pend # NoPending
            /\ ev.pend.pruneMissing
            /\ \E n \in Names : ev.before[n] # NoEntry /\ n \notin NamesOf(ev.pend.accounts)
      [] OTHER -> FALSE

\* C17: a step that mutates the cache (or leaves it changed) has called every
\* listener registered at that moment exactly once before it ended, and no
\* other listener.
C17_MutationNotifies ==
    "invoked" \in DOMAIN ev /\ (Mutation \/ cache # ev.before) =>
        \A l \in Listeners : ev.invoked[l] = IF l \in ev.subs THEN 1 ELSE 0

\* The prune applied when a pending batch was dequeued removed an entry and both
\* listeners were called.
C17_Witness ==
    /\ ev.op = "finally" /\ Mutation
    /\ ev.subs = Listeners
    /\ ev.invoked = [l \in Listeners |-> 1]

\* C18: removeAccount of a name without entry, renameAccount to the same name
\* and renameAccount of a name without entry leave the cache, the cache file,
\* inFlight and pending as they were, write nothing and call no listener; a
\* removeAccount or renameAccount that changes an entry writes the cache file
\* once and calls every registered listener once.
C18_PersistAndNotifyOnlyOnChange ==
    ev.op \in {"removeAccount", "renameAccount"} =>
        IF Mutation
        THEN /\ ev.saves = 1
             /\ disk = cache
             /\ \A l \in Listeners : ev.invoked[l] = IF l \in ev.subs THEN 1 ELSE 0
        ELSE /\ cache = ev.before
             /\ disk = ev.file
             /\ inFlight = ev.flight
             /\ pending = ev.pend
             /\ ev.saves = 0
             /\ \A l \in Listeners : ev.invoked[l] = 0

\* renameAccount of a name without entry onto a cached name, with listeners
\* registered, a batch fetching and a pending batch: nothing happened.
C18_Witness ==
    /\ ev.op = "renameAccount" /\ ev.oldName # ev.newName
    /\ ev.before[ev.oldName] = NoEntry /\ ev.before[ev.newName] # NoEntry
    /\ ev.subs = Listeners
    /\ ev.flight # 0 /\ ev.pend # NoPending
    /\ cache = ev.before

\* C19: renameAccount(old, new) with old # new and an entry for old leaves
\* old's former entry (summary and fetchedAt) under new, no entry under old,
\* every other entry as it was, and issues no network request.
C19_RenameMovesEntry ==
    ev.op = "renameAccount" /\ ev.oldName # ev.newName
            /\ ev.before[ev.oldName] # NoEntry =>
        /\ cache[ev.newName] = ev.before[ev.oldName]
        /\ cache[ev.oldName] = NoEntry
        /\ \A n \in Names \ {ev.oldName, ev.newName} : cache[n] = ev.before[n]
        /\ issuedAt = ev.issuedAt
        /\ procs = ev.procs

\* An entry was moved onto a name that had another entry, while a batch was
\* fetching.
C19_Witness ==
    /\ ev.op = "renameAccount" /\ ev.oldName # ev.newName
    /\ ev.before[ev.oldName] # NoEntry /\ ev.before[ev.newName] # NoEntry
    /\ ev.before[ev.oldName] # ev.before[ev.newName]
    /\ cache[ev.newName] = ev.before[ev.oldName]
    /\ Outstanding # {}

\* C20: readAuthTokens returns a token state for whatever it finds; for a
\* profile whose credentials are missing, unparsable or incomplete no network
\* request is issued, and the profile gets an entry (warning for missing and
\* incomplete, error for unparsable) stamped with the time of the store.
C20_TokenFailureShortCircuits ==
    /\ \A f \in AuthFileStates : readAuthTokens(f) \in TokenStates
    /\ \A b \in DOMAIN procs :
          procs[b].pc = "fetch" /\ procs[b].tok # "ok" => issuedAt = -1
    /\ ev.op = "fetch" /\ ev.tok # "ok" =>
          /\ ~ev.issued
          /\ cache[ev.name] =
                [summary |-> IF ev.tok = "parse_error" THEN "error" ELSE "warning",
                 fetchedAt |-> now]

\* A profile whose credential file could not be parsed has got an error entry,
\* replacing an older one, with no request made.
C20_Witness ==
    /\ ev.op = "fetch" /\ ev.tok = "parse_error" /\ ~ev.issued
    /\ cache[ev.name] = [summary |-> "error", fetchedAt |-> now]
    /\ now > StartTime
    /\ lastFetchEnd = -1

C22_MessageWithinLimit ==
    ev.op = "summary" /\ ev.summary.status \in {"warning", "error"} =>
        Len(ev.summary.message) <= MessageLimit

\* C30: the message of the outcome of a non-2xx response is "Usage request
\* failed (HTTP <status>)", followed by nothing when the body is empty or cannot
\* be read, else by ": " and the body when it has at most BodyLimit (140)
\* characters, else by ": ", the first BodyLimit characters of the body and the
\* ellipsis.
C30_NonOkDetail ==
    ev.op = "snapshot" /\ ev.reply.kind = "http" =>
        LET head == RequestFailed \o ev.reply.status \o Paren
            message == ev.snapshot.message
            rest == SubSeq(message, Len(head) + 1, Len(message))
            detail == SubSeq(rest, Len(Colon) + 1, Len(rest))
        IN /\ ev.snapshot.state = "error"
           /\ Len(message) >= Len(head)
           /\ SubSeq(message, 1, Len(head)) = head
           /\ IF ~ev.reply.readable \/ ev.reply.body = <<>> THEN rest = <<>>
              ELSE /\ SubSeq(rest, 1, Len(Colon)) = Colon
                   /\ IF Len(ev.reply.body) <= BodyLimit THEN detail = ev.reply.body
                      ELSE /\ Len(detail) = BodyLimit + Len(Ellipsis)
                           /\ SubSeq(detail, 1, BodyLimit) = SubSeq(ev.reply.body, 1, BodyLimit)
                           /\ SubSeq(detail, BodyLimit + 1, Len(detail)) = Ellipsis

\* A 500 response with a body one character over the limit: the outcome's
\* message carries the first BodyLimit characters and the ellipsis.
C30_Witness ==
    /\ ev.op = "snapshot"
    /\ ev.reply.kind = "http" /\ ev.reply.readable
    /\ ev.reply.status = <<"5", "0", "0">>
    /\ Len(ev.reply.body) = BodyLimit + 1
    /\ Len(ev.snapshot.message)
          = Len(RequestFailed) + 3 + Len(Paren) + Len(Colon) + BodyLimit + Len(Ellipsis)

C26_ReadsArePure ==
    ev.op \in {"getSummary", "getAllSummaries"} =>
        /\ cache = ev.before
        /\ disk = ev.file
        /\ listeners = ev.subs
        /\ inFlight = ev.flight
        /\ pending = ev.pend
        /\ procs = ev.procs
        /\ issuedAt = ev.issuedAt
        /\ ev.saves = 0
        /\ \A l \in Listeners : ev.invoked[l] = 0

\* getAllSummaries was called for both names, both cached, with both listeners
\* registered, a request outstanding and a pending batch.
C26_Witness ==
    /\ ev.op = "getAllSummaries" /\ ev.names = Names
    /\ \A n \in Names : ev.result[n] # Null
    /\ ev.subs = Listeners
    /\ Outstanding # {}
    /\ pending # NoPending

Outcome ==
    CASE ev.op = "invalidateCache" -> NoEntries
      [] ev.op = "removeAccount" -> [ev.before EXCEPT ![ev.name] = NoEntry]
      [] ev.op = "renameAccount" ->
            IF ev.oldName # ev.newName /\ ev.before[ev.oldName] # NoEntry
            THEN [ev.before EXCEPT ![ev.newName] = ev.before[ev.oldName],
                                   ![ev.oldName] = NoEntry]
            ELSE ev.before
      [] ev.op = "fetch" ->
            IF summarizeUsageSnapshot(ev.resp) = Thrown THEN ev.before
            ELSE [ev.before EXCEPT ![ev.name] =
                     [summary |-> summarizeUsageSnapshot(ev.resp), fetchedAt |-> now]]
      [] ev.op = "refreshAccounts" ->
            IF ev.prune
            THEN [n \in Names |-> IF n \in ev.names THEN ev.before[n] ELSE NoEntry]
            ELSE ev.before
      [] ev.op = "finally" ->
            IF ev.pend # NoPending /\ ev.pend.pruneMissing
            THEN [n \in Names |-> IF n \in NamesOf(ev.pend.accounts) THEN ev.before[n]
                                  ELSE NoEntry]
            ELSE ev.before
      [] OTHER -> ev.before

\* C28: every step leaves the cache either as it found it or with the step's
\* mutation (fetch store, prune, invalidate, remove, rename) done in full; the
\* cache file is written at most once in a step, and what is written, what the
\* listeners of the step find and what the next step finds is the cache with
\* the whole mutation: never a rename with both keys, never a prune with some
\* of the missing names left.
C28_NoPartialWrites ==
    "seen" \in DOMAIN ev =>
        /\ cache = Outcome
        /\ ev.saves <= 1
        /\ disk = IF ev.saves = 1 THEN Outcome ELSE ev.file
        /\ \A i \in DOMAIN ev.seen : ev.seen[i].cache = Outcome
        /\ ev.op = "renameAccount" /\ ev.oldName # ev.newName =>
              \A i \in DOMAIN ev.seen : ev.seen[i].cache[ev.oldName] = NoEntry

\* A rename onto a cached name while a request is outstanding and a batch is
\* pending: the file and the listeners found the entry moved.
C28_Witness ==
    /\ ev.op = "renameAccount" /\ ev.oldName # ev.newName
    /\ ev.before[ev.oldName] # NoEntry /\ ev.before[ev.newName] # NoEntry
    /\ Len(ev.seen) = 2
    /\ ev.seen[1].by = "file" /\ ev.seen[2].by = "listeners"
    /\ Outstanding # {}
    /\ pending # NoPending

\* Batch b is running / has settled.
Unsettled(b) == b \in DOMAIN procs /\ procs[b].pc # "settled"

HasSettled(b) == b \in DOMAIN procs /\ procs[b].pc = "settled"

Idle == inFlight = 0 /\ pending = NoPending

\* The step that ends the batch in flight while a batch is pending starts the
\* pending batch itself.
StartsPending ==
    /\ inFlight' # 0
    /\ procs'[inFlight'].origin = "dequeue"
    /\ procs'[inFlight'].accounts = pending.accounts
    /\ procs'[inFlight'].force = pending.force
    /\ pending' = NoPending

\* The step starts the batch of a listener that called refreshAccounts from
\* the notification of the dequeued batch's prune, and leaves the dequeued
\* batch pending behind it.
StartsListenerFirst ==
    /\ inFlight' # 0
    /\ procs'[inFlight'].origin = "listener"
    /\ pending.pruneMissing
    /\ pending' = pending

\* C29 as stated: every running batch eventually completes, a pending batch
\* is started in the step that completes the running one, and the coordinator
\* eventually stays Idle.
C29_Original ==
    /\ \A b \in 1..MaxCalls : Unsettled(b) ~> HasSettled(b)
    /\ [][pending # NoPending /\ inFlight' # inFlight => StartsPending]_vars
    /\ <>[]Idle

\* C29: every running batch eventually completes; the step that completes the
\* running batch while a batch is pending starts a batch at once, the pending
\* one, or the batch of a listener that called refreshAccounts when it was
\* notified of the pending batch's prune, with the pending batch kept pending
\* behind that one; and once the callers have made their calls the coordinator
\* eventually stays Idle.
C29_Progress ==
    /\ \A b \in 1..MaxCalls : Unsettled(b) ~> HasSettled(b)
    /\ [][pending # NoPending /\ inFlight' # inFlight
             => StartsPending \/ StartsListenerFirst]_vars
    /\ <>[]Idle

\* Three batches have run, the last two started from the pending batch, and
\* the coordinator is Idle with every call made.
C29_Witness ==
    /\ Idle
    /\ ncalls = MaxCalls
    /\ Len(procs) = 3
    /\ \A b \in DOMAIN procs : procs[b].pc = "settled"

\* The member of the payload a summary field is read from: data.a.b, undefined
\* where a is no object.
Carried(data, path) ==
    IF Len(path) = 1 THEN Get(data, path[1])
    ELSE IF Len(path) = 2 THEN Get(Get(data, path[1]), path[2])
    ELSE Get(Get(Get(data, path[1]), path[2]), path[3])

\* A field of a window of the summary, null when the window is null.
WindowField(window, field) == IF window = JNull THEN JNull ELSE window[field]

\* C31: for an ok outcome the summarizer does not throw and produces an ok
\* summary, for every payload shape (a null or non-object body, members absent
\* or of the wrong type): allowed, limitReached, unlimited and the three
\* numbers of each window are null unless the payload carries a value of the
\* right type, and equal that value when it does.
C31_NeverThrows ==
    ev.op = "okSummary" =>
        /\ ev.summary.status = "ok"
        /\ ev.summary.rateLimit.allowed =
              OfType(Carried(ev.data, <<"rate_limit", "allowed">>), "boolean")
        /\ ev.summary.rateLimit.limitReached =
              OfType(Carried(ev.data, <<"rate_limit", "limit_reached">>), "boolean")
        /\ (IF ev.summary.credits = JNull THEN JNull ELSE ev.summary.credits.unlimited) =
              OfType(Carried(ev.data, <<"credits", "unlimited">>), "boolean")
        /\ \A w \in {<<"primary", "primary_window">>, <<"secondary", "secondary_window">>},
              f \in {<<"usedPercent", "used_percent">>,
                     <<"resetAfterSeconds", "reset_after_seconds">>,
                     <<"limitWindowSeconds", "limit_window_seconds">>} :
              WindowField(ev.summary.rateLimit[w[1]], f[1]) =
                  OfType(Carried(ev.data, <<"rate_limit", w[2], f[2]>>), "number")

\* The names whose entries the operation recorded in e deleted: the name
\* removeAccount was called with, the names a pruning refreshAccounts call
\* does not list.
DeletedBy(e) ==
    IF e.op = "removeAccount" THEN {n \in {e.name} : e.before[n] # NoEntry}
    ELSE IF e.op = "refreshAccounts" /\ e.prune THEN e.had \ e.names
    ELSE {}

\* C32: an entry removeAccount or a prune deleted stays deleted until a
\* refreshAccounts call issued after the deletion names the profile: the step
\* that follows the deletion, unless it is such a call (or a renameAccount
\* onto the name), leaves no entry for the name, also when it is the
\* completion of a fetch for that name that was in progress when the deletion
\* ran.
C32_StaysDeleted ==
    [][\A n \in Names :
          n \in DeletedBy(ev) /\ ev'.op \notin {"refreshAccounts", "renameAccount"}
              => cache'[n] = NoEntry]_vars

\* C33: invalidateCache does not cancel work.  Called while a batch is in
\* flight it leaves the batch (its list, its position, its outstanding
\* request) and the pending batch as they are; and the fetch in progress,
\* completing next, stores its result in the cache invalidateCache left and in
\* the cache file: both then hold that entry and no other.
C33_InvalidateDoesNotCancel ==
    /\ [][ev'.op = "invalidateCache" /\ inFlight # 0 =>
             /\ inFlight' = inFlight
             /\ procs' = procs
             /\ pending' = pending
             /\ issuedAt' = issuedAt]_vars
    /\ [][ev.op = "invalidateCache" /\ ev'.op = "fetch" =>
             \A n \in Names :
                 /\ cache'[n] = IF n = ev'.name
                                THEN [summary |-> "ok", fetchedAt |-> now]
                                ELSE NoEntry
                 /\ disk'[n] = cache'[n]]_vars

\* invalidateCache ran while a request was outstanding and a batch was
\* pending, and emptied a cache that held an entry.
C33_Witness ==
    /\ ev.op = "invalidateCache"
    /\ ev.flight # 0
    /\ ev.pend # NoPending
    /\ pending = ev.pend
    /\ Outstanding # {}
    /\ \E n \in Names : ev.before[n] # NoEntry
    /\ cache = NoEntries

\* A refreshAccounts call named n and no batch has attempted n for it yet.
Owed(n) == \E c \in calls : n \in c.left

\* C34: every profile named in a refreshAccounts call is eventually attempted
\* (its request begun, or skipped as fresh), whether the call started a batch
\* or was merged into the pending batch, whatever was merged after it; in the
\* end no call is owed a profile.
C34_EventuallyAttempted ==
    /\ \A n \in Names : Owed(n) ~> ~Owed(n)
    /\ <>[](\A n \in Names : ~Owed(n))

\* Three calls were made, two of them merged into the pending batch while a
\* batch was in flight, and every profile they named has been attempted.
C34_Witness ==
    /\ ncalls = MaxCalls
    /\ Cardinality({c \in calls : c.merged /\ c.names # {}}) >= 2
    /\ \E c \in calls, d \in calls : c.merged /\ d.merged /\ c.names # d.names
                                      /\ c.names # {} /\ d.names # {}
    /\ \A n \in Names : ~Owed(n)

\* C35: a request that arrives while a batch is in flight changes nothing of
\* that batch: its list, the order, its position and its force flag stay as
\* they were when it started; and while a forced request is pending behind a
\* batch without force, that batch has fetched only profiles that had no
\* entry or whose entry had reached the TTL when it came to them.
C35_RunningBatchIsFixed ==
    /\ [][ncalls' # ncalls /\ inFlight # 0 =>
             inFlight' = inFlight /\ procs' = procs]_vars
    /\ [](inFlight # 0 /\ ~procs[inFlight].force /\ pending # NoPending /\ pending.force
             => \A i \in DOMAIN procs[inFlight].log :
                   procs[inFlight].log[i].act = "fetch" => procs[inFlight].log[i].due)

\* A batch without force has fetched the first profile of its list and
\* skipped the second, whose entry is fresh, and a forced request naming that
\* profile is pending behind it.
C35_Witness ==
    /\ inFlight # 0
    /\ ~procs[inFlight].force
    /\ Len(procs[inFlight].accounts) = 2
    /\ Len(procs[inFlight].log) = 2
    /\ procs[inFlight].log[1].act = "fetch"
    /\ procs[inFlight].log[2].act = "skip"
    /\ pending # NoPending
    /\ pending.force
    /\ procs[inFlight].log[2].name \in NamesOf(pending.accounts)
    /\ lastFetchEnd = now
    /\ \E n \in Names : cache[n] # NoEntry /\ cache[n].fetchedAt = now

\* C36: a refreshAccounts call whose list has no record with a name starts no
\* batch and leaves the pending batch as it is, with or without a batch in
\* flight; the promise it is handed is already resolved; with pruneMissing it
\* has deleted every cache entry, without it the cache is as it was.
C36_EmptyListIsNoRequest ==
    ev.op = "refreshAccounts" /\ ev.names = {} =>
        /\ inFlight = ev.flight
        /\ pending = ev.pend
        /\ \E c \in calls : c.names = {} /\ c.awaits = 0 /\ c.batch = 0
        /\ cache = IF ev.prune THEN NoEntries ELSE ev.before
        /\ disk = IF ev.prune THEN NoEntries ELSE ev.file

\* A pruning call without a named record was made while a request was
\* outstanding and a batch was pending, and emptied a cache that held an entry.
C36_Witness ==
    /\ ev.op = "refreshAccounts"
    /\ ev.names = {}
    /\ ev.prune
    /\ ev.flight # 0
    /\ ev.pend # NoPending
    /\ Outstanding # {}
    /\ \E n \in Names : ev.before[n] # NoEntry
    /\ cache = NoEntries

\* C37: when the .finally callback dequeues a pending batch whose
\* pruneMissing flag is set, every cache entry whose name is not in the merged
\* list is deleted before the batch's first fetch, the entries the finished
\* batch wrote among them, and the entries of the listed names are kept; a
\* pending batch without the flag deletes nothing.  The cache file follows.
C37_PruneAgainOnDequeue ==
    ev.op = "finally" /\ ev.pend # NoPending =>
        /\ \A n \in Names :
              cache[n] = IF ev.pend.pruneMissing /\ n \notin NamesOf(ev.pend.accounts)
                         THEN NoEntry
                         ELSE ev.before[n]
        /\ ev.pend.pruneMissing => disk = cache
        /\ ~ev.pend.pruneMissing => disk = ev.file

\* A pending batch with the flag set was dequeued and started, and the entry
\* the finished batch had just written, for a name the pending batch does not
\* list, was deleted.
C37_Witness ==
    /\ ev.op = "finally"
    /\ ev.pend # NoPending
    /\ ev.pend.pruneMissing
    /\ inFlight # 0
    /\ procs[inFlight].origin = "dequeue"
    /\ procs[inFlight].pc = "fetch"
    /\ \E n \in Names \ NamesOf(ev.pend.accounts) :
          /\ ev.before[n] # NoEntry
          /\ ev.before[n].fetchedAt >= StartTime
          /\ cache[n] = NoEntry

\* Batch b calls fetchAndStore in this step: it begins the request for a
\* profile of its list.
Begins(b) ==
    /\ b \in DOMAIN procs'
    /\ procs'[b].pc = "fetch"
    /\ IF b \in DOMAIN procs
       THEN procs[b].pc # "fetch" \/ procs[b].i # procs'[b].i
       ELSE TRUE

Failure == {"warning", "error"}

\* C38: a fetch that ends in a warning or error summary leaves an entry with
\* that summary and the time of the attempt, as a successful one does; and a
\* batch without force begins a fetch for a profile whose entry holds a
\* warning or error only once the entry's age has reached the TTL.
C38_FailuresAreCached ==
    /\ [](ev.op = "fetch" /\ summarizeUsageSnapshot(ev.resp) \in Failure
             => cache[ev.name] = [summary |-> summarizeUsageSnapshot(ev.resp),
                                  fetchedAt |-> now])
    /\ [][\A b \in DOMAIN procs' :
             LET name == procs'[b].accounts[procs'[b].i].name IN
             Begins(b) /\ ~procs'[b].force /\ cache'[name] # NoEntry
                 => \/ cache'[name].summary \notin Failure
                    \/ now' - cache'[name].fetchedAt >= cacheTtlMs]_vars

\* A fetch of this behaviour failed, and a later batch without force has
\* skipped that profile, its entry being younger than the TTL, and is
\* fetching another.
C38_Witness ==
    \E b \in Running(Cur) :
        /\ ~procs[b].force
        /\ procs[b].pc = "fetch"
        /\ Len(procs[b].log) = 2
        /\ procs[b].log[1].act = "skip"
        /\ LET name == procs[b].log[1].name IN
           /\ cache[name] # NoEntry
           /\ cache[name].summary \in Failure
           /\ cache[name].fetchedAt >= StartTime
           /\ now - cache[name].fetchedAt < cacheTtlMs
           /\ now > cache[name].fetchedAt

\* C39: the function onUpdate(l) returned removes l and no other listener,
\* and changes nothing else; called again while l is not registered it
\* changes nothing at all.  A notification calls the listeners registered
\* when it is made, each as often as the others, and no listener that is not
\* registered: not l, once it has been unsubscribed.
C39_UnsubscribeStops ==
    /\ [][ev'.op = "unsubscribe" =>
             /\ listeners' = listeners \ {ev'.l}
             /\ UNCHANGED <<cache, disk, inFlight, pending, procs, calls, ncalls, now,
                            issuedAt, lastFetchEnd, want>>]_vars
    /\ []["invoked" \in DOMAIN ev' =>
             /\ \A l \in Listeners \ listeners : ev'.invoked[l] = 0
             /\ \A l \in listeners, m \in listeners : ev'.invoked[l] = ev'.invoked[m]
             /\ listeners' = listeners]_vars

\* The second listener has just been unsubscribed and the first stays
\* registered; a fetch of this behaviour has stored an entry, and a request is
\* outstanding whose completion will notify the first listener.
C39_Witness ==
    /\ ev.op = "unsubscribe"
    /\ ev.l = 2
    /\ listeners = {1}
    /\ Outstanding # {}
    /\ \E n \in Names : cache[n] # NoEntry /\ cache[n].fetchedAt >= StartTime

====
